---- MODULE Spec2Model ----
(***************************************************************************)
(* Zone filling engine of the random scenario generator (TemplateZone).    *)
(* The grid is a square map of MapSize x MapSize tiles; one zone (ZoneId)  *)
(* is filled, the remaining tiles belong to a neighbouring zone.           *)
(***************************************************************************)
EXTENDS Integers, Sequences, FiniteSets, TLC

\* ------------------------------------------------------------------ bounds
MapSize == 10

\* ------------------------------------------------------- program constants
ZoneId == 1
OtherZoneId == 2
InfDistance == 1000000
SiteSize == 3
CitySize == 4
CapitalSize == 5
StackSize == 1
StackMinDistance == 1
CrystalSize == 1
CrystalAreaSize == 3
FractalMinDistance == 75

\* ---------------------------------------------------------------- geometry
Tiles == (0 .. MapSize - 1) \X (0 .. MapSize - 1)

Invalid == <<-1, -1>>

Add(p, q) == <<p[1] + q[1], p[2] + q[2]>>

Sub(p, q) == <<p[1] - q[1], p[2] - q[2]>>

distanceSquared(a, b) == (a[1] - b[1]) * (a[1] - b[1]) + (a[2] - b[2]) * (a[2] - b[2])

isInTheMap(p) == p[1] >= 0 /\ p[1] < MapSize /\ p[2] >= 0 /\ p[2] < MapSize

isAtTheBorder(p) == p[1] = 0 \/ p[1] = MapSize - 1 \/ p[2] = 0 \/ p[2] = MapSize - 1

\* Neighbour directions, in the order the grid visits them.
DirectDirs == << <<0, -1>>, <<-1, 0>>, <<1, 0>>, <<0, 1>> >>

DiagonalDirs == << <<-1, -1>>, <<1, -1>>, <<-1, 1>>, <<1, 1>> >>

AllDirs == DirectDirs \o DiagonalDirs

SeqRange(s) == {s[i] : i \in 1 .. Len(s)}

directNeighbors(p) == {Add(p, d) : d \in SeqRange(DirectDirs)} \cap Tiles

diagonalNeighbors(p) == {Add(p, d) : d \in SeqRange(DiagonalDirs)} \cap Tiles

allNeighbors(p) == directNeighbors(p) \cup diagonalNeighbors(p)

neighbors(p, onlyStraight) == IF onlyStraight THEN directNeighbors(p) ELSE allNeighbors(p)

\* ------------------------------------------------------------- map element
\* A map element is its size <<w, h>>; its position is the top-left tile.
getBlockedOffsets(size) == (0 .. size[1] - 1) \X (0 .. size[2] - 1)

getEntranceOffset(size) == <<size[1] \div 2, size[2] - 1>>

getEntranceOffsets == SeqRange(AllDirs)

isVisitableFrom(dir) == dir \in getEntranceOffsets

getBlockedPositions(size, position) == {Add(position, off) : off \in getBlockedOffsets(size)}

getEntrance(size, position) == Add(position, getEntranceOffset(size))

isElementAtTheBorder(size, position) ==
    \E t \in getBlockedPositions(size, position) : ~isInTheMap(t) \/ isAtTheBorder(t)

\* Extra tiles of a fortification selected by its gap mask: bit 1 is the
\* column right of the footprint, bit 2 the row below it, bit 4 the corner.
getTilesByMask(size, position, mask) ==
    (IF (mask % 2) = 1
        THEN {Add(position, <<size[1], y>>) : y \in 0 .. size[2] - 1} ELSE {})
    \cup (IF ((mask \div 2) % 2) = 1
        THEN {Add(position, <<x, size[2]>>) : x \in 0 .. size[1] - 1} ELSE {})
    \cup (IF ((mask \div 4) % 2) = 1
        THEN {Add(position, size)} ELSE {})

\* ------------------------------------------------------------------- state
VARIABLES
    occ,            \* tile -> "Possible" | "Free" | "Blocked" | "Used"
    ground,         \* tile -> "Plain" | "Forest" | "Water" | "Mountain"
    road,           \* tile -> BOOLEAN
    nod,            \* tile -> nearest object distance (InfDistance at start)
    zoneOf,         \* tile -> zone id
    tmpl,           \* the zone's options taken from the template
    filters,        \* the landmark filter lists built so far in this process
    pos,            \* the zone's position (centre)
    possibleTiles,  \* TemplateZone::possibleTiles
    freePaths,      \* TemplateZone::freePaths
    roadNodes,      \* TemplateZone::roadNodes
    roads,          \* TemplateZone::roads
    objects,        \* scenario objects inserted into the map, in order
    decorations,    \* TemplateZone::decorations
    todo,           \* what the running step still has to place
    pc,             \* the step the generator is at
    last            \* record of the last placement attempt

vars == <<occ, ground, road, nod, zoneOf, tmpl, filters, pos, possibleTiles, freePaths,
          roadNodes, roads, objects, decorations, todo, pc, last>>

\* ------------------------------------------------------------ tile queries
isPossible(o, p) == o[p] = "Possible"

isFree(o, p) == o[p] = "Free"

isUsed(o, p) == o[p] = "Used"

shouldBeBlocked(o, p) == o[p] = "Blocked"

isBlocked(o, p) == o[p] = "Blocked" \/ o[p] = "Used"

setOccupied(o, ts, state) == [p \in Tiles |-> IF p \in ts THEN state ELSE o[p]]

isInTheZone(p) == zoneOf[p] = ZoneId

tileInfo == {p \in Tiles : zoneOf[p] = ZoneId}

\* ------------------------------------------------------------ accessibility
\* The last tile around the entrance, in loop order x = -1..1, y = -1..1,
\* from which the element can be visited.
AccessDirs == << <<-1, -1>>, <<-1, 0>>, <<-1, 1>>, <<0, -1>>, <<0, 1>>,
                 <<1, -1>>, <<1, 0>>, <<1, 1>> >>

accessibleAt(o, size, position, i) ==
    LET offset == Add(AccessDirs[i], getEntranceOffset(size))
        nearbyPos == Add(position, offset)
    IN  /\ offset \notin getBlockedOffsets(size)
        /\ isInTheMap(nearbyPos)
        /\ isVisitableFrom(AccessDirs[i])
        /\ ~isBlocked(o, nearbyPos)
        /\ isInTheZone(nearbyPos)

RECURSIVE lastAccessibleAt(_, _, _, _)
lastAccessibleAt(o, size, position, i) ==
    IF i = 0 THEN Invalid
    ELSE IF accessibleAt(o, size, position, i)
    THEN Add(position, Add(AccessDirs[i], getEntranceOffset(size)))
    ELSE lastAccessibleAt(o, size, position, i - 1)

getAccessibleOffset(o, size, position) ==
    lastAccessibleAt(o, size, position, Len(AccessDirs))

getAccessibleTiles(o, size, position) ==
    LET entrance == getEntrance(size, position)
    IN  {p \in allNeighbors(entrance) :
            /\ isPossible(o, p) \/ isFree(o, p)
            /\ p \notin getBlockedPositions(size, position)
            /\ isVisitableFrom(Sub(p, entrance))
            /\ ~isBlocked(o, p)}

isAccessibleFromSomewhere(o, size, position) ==
    getAccessibleOffset(o, size, position) # Invalid

isEntranceAccessible(o, size, position) ==
    \A offset \in getEntranceOffsets :
        LET entranceTile == Add(getEntrance(size, position), offset)
        IN  isInTheMap(entranceTile) /\ ~isBlocked(o, entranceTile)

\* Faulty variant: tiles of a neighbouring zone count as available.
areAllTilesAvailableAnyZone(o, size, position) ==
    \A offset \in getBlockedOffsets(size) :
        LET t == Add(position, offset)
        IN  isInTheMap(t) /\ isPossible(o, t)

areAllTilesAvailable(o, size, position) ==
    \A offset \in getBlockedOffsets(size) :
        LET t == Add(position, offset)
        IN  isInTheMap(t) /\ isPossible(o, t) /\ zoneOf[t] = ZoneId

\* ------------------------------------------------------------- connectPath
\* Breadth-first layers from the source: the search advances one step at a
\* time through in-zone tiles that are neither blocked nor used and stops at
\* the first layer holding a free tile.  The grown layers and closed set are
\* handed on as values.
\* Faulty variant: the search walks through used tiles.
RECURSIVE connectPathThroughUsed(_, _, _, _)
connectPathThroughUsed(o, layers, closed, onlyStraight) ==
    LET cur == layers[Len(layers)]
        next == {q \in UNION {neighbors(p, onlyStraight) : p \in cur} :
                    /\ q \notin closed
                    /\ ~shouldBeBlocked(o, q)
                    /\ zoneOf[q] = ZoneId}
    IN  IF (\E p \in cur : isFree(o, p)) \/ next = {}
        THEN layers
        ELSE CHOOSE r \in {connectPathThroughUsed(o, l, c, onlyStraight) :
                              l \in {Append(layers, next)}, c \in {closed \cup next}} : TRUE

RECURSIVE connectPathLayers(_, _, _, _)
connectPathLayers(o, layers, closed, onlyStraight) ==
    LET cur == layers[Len(layers)]
        next == {q \in UNION {neighbors(p, onlyStraight) : p \in cur} :
                    /\ q \notin closed
                    /\ ~isBlocked(o, q)
                    /\ zoneOf[q] = ZoneId}
    IN  IF (\E p \in cur : isFree(o, p)) \/ next = {}
        THEN layers
        ELSE CHOOSE r \in {connectPathLayers(o, l, c, onlyStraight) :
                              l \in {Append(layers, next)}, c \in {closed \cup next}} : TRUE

\* The tile sets a backtracking from tile t of layer k to the source can paint.
RECURSIVE connectPathTraces(_, _, _, _)
connectPathTraces(layers, t, k, onlyStraight) ==
    IF k = 1 THEN {{t}}
    ELSE UNION {{tr \cup {t} : tr \in connectPathTraces(layers, q, k - 1, onlyStraight)} :
                    q \in neighbors(t, onlyStraight) \cap layers[k - 1]}

\* Faulty variant: the sealed-off tiles stay in possibleTiles.
connectPathKeepingPossible(o, pt, source, onlyStraight) ==
    LET layers == connectPathLayers(o, <<{source}>>, {source}, onlyStraight)
        n == Len(layers)
        closed == UNION {layers[i] : i \in 1 .. n}
        goals == {p \in layers[n] : isFree(o, p)}
    IN  IF goals # {}
        THEN {[ok |-> TRUE, occ |-> setOccupied(o, tr, "Free"), possibleTiles |-> pt,
               closed |-> closed, trace |-> tr] :
                 tr \in UNION {connectPathTraces(layers, g, n, onlyStraight) : g \in goals}}
        ELSE {[ok |-> FALSE,
               occ |-> [p \in Tiles |-> IF p \in closed /\ isPossible(o, p)
                                          THEN "Blocked" ELSE o[p]],
               possibleTiles |-> pt,
               closed |-> closed, trace |-> {}]}

\* Faulty variant: the tiles found sealed off are left as they were.
connectPathLeavingSealed(o, pt, source, onlyStraight) ==
    LET layers == connectPathLayers(o, <<{source}>>, {source}, onlyStraight)
        n == Len(layers)
        closed == UNION {layers[i] : i \in 1 .. n}
        goals == {p \in layers[n] : isFree(o, p)}
    IN  IF goals # {}
        THEN {[ok |-> TRUE, occ |-> setOccupied(o, tr, "Free"), possibleTiles |-> pt,
               closed |-> closed, trace |-> tr] :
                 tr \in UNION {connectPathTraces(layers, g, n, onlyStraight) : g \in goals}}
        ELSE {[ok |-> FALSE, occ |-> o, possibleTiles |-> pt,
               closed |-> closed, trace |-> {}]}

\* Every outcome of connectPath(source, onlyStraight): which of several
\* equally near free tiles and equally short paths is taken depends on the
\* order of the priority queue, so all of them are outcomes.
connectPath(o, pt, source, onlyStraight) ==
    LET layers == connectPathLayers(o, <<{source}>>, {source}, onlyStraight)
        n == Len(layers)
        closed == UNION {layers[i] : i \in 1 .. n}
        goals == {p \in layers[n] : isFree(o, p)}
    IN  IF goals # {}
        THEN {[ok |-> TRUE, occ |-> setOccupied(o, tr, "Free"), possibleTiles |-> pt,
               closed |-> closed, trace |-> tr] :
                 tr \in UNION {connectPathTraces(layers, g, n, onlyStraight) : g \in goals}}
        ELSE {[ok |-> FALSE,
               occ |-> [p \in Tiles |-> IF p \in closed /\ isPossible(o, p)
                                          THEN "Blocked" ELSE o[p]],
               possibleTiles |-> pt \ closed,
               closed |-> closed, trace |-> {}]}

\* --------------------------------------------------------------- blueprint
\* The footprint is marked used while the path is searched ...
blueprintInstall(o, position, size) ==
    setOccupied(o, getBlockedPositions(size, position) \cap Tiles, "Used")

\* ... and gets back the occupancy it had when the blueprint is dropped.
blueprintRelease(before, o, position, size) ==
    [p \in Tiles |-> IF p \in getBlockedPositions(size, position) THEN before[p] ELSE o[p]]

\* ------------------------------------- tryToPlaceObjectAndConnectToPath
\* Faulty variant: the footprint marked by the blueprint stays used when the path
\* search fails.
tryToPlaceKeepingBlueprint(o, pt, size, position) ==
    LET tiles == getAccessibleTiles(o, size, position)
        accessibleTile == getAccessibleOffset(o, size, position)
    IN  IF tiles = {} \/ accessibleTile = Invalid
        THEN {[result |-> "CannotFit", occ |-> o, possibleTiles |-> pt, sealed |-> {}]}
        ELSE {IF r.ok
              THEN [result |-> "Success",
                    occ |-> setOccupied(blueprintRelease(o, r.occ, position, size),
                                        ({getEntrance(size, position)}
                                           \cup getBlockedPositions(size, position)) \cap Tiles,
                                        "Blocked"),
                    possibleTiles |-> r.possibleTiles,
                    sealed |-> {}]
              ELSE [result |-> "SealedOff",
                    occ |-> r.occ,
                    possibleTiles |-> r.possibleTiles,
                    sealed |-> {p \in r.closed : isPossible(o, p)}] :
                r \in connectPath(blueprintInstall(o, position, size), pt, accessibleTile, TRUE)}

tryToPlaceObjectAndConnectToPath(o, pt, size, position) ==
    LET tiles == getAccessibleTiles(o, size, position)
        accessibleTile == getAccessibleOffset(o, size, position)
    IN  IF tiles = {} \/ accessibleTile = Invalid
        THEN {[result |-> "CannotFit", occ |-> o, possibleTiles |-> pt, sealed |-> {}]}
        ELSE {IF r.ok
              THEN [result |-> "Success",
                    occ |-> setOccupied(blueprintRelease(o, r.occ, position, size),
                                        ({getEntrance(size, position)}
                                           \cup getBlockedPositions(size, position)) \cap Tiles,
                                        "Blocked"),
                    possibleTiles |-> r.possibleTiles,
                    sealed |-> {}]
              ELSE [result |-> "SealedOff",
                    occ |-> blueprintRelease(o, r.occ, position, size),
                    possibleTiles |-> r.possibleTiles,
                    sealed |-> {p \in r.closed : isPossible(o, p)}] :
                r \in connectPath(blueprintInstall(o, position, size), pt, accessibleTile, TRUE)}

\* ------------------------------------------------------ findPlaceForObject
\* The tiles of the area the scan accepts at all.
findPlaceCandidates(o, d, area, size, minDistance, findAccessible) ==
    {tile \in area :
        /\ ~isElementAtTheBorder(size, tile)
        /\ findAccessible =>
              (isAccessibleFromSomewhere(o, size, tile) /\ isEntranceAccessible(o, size, tile))
        /\ isPossible(o, tile)
        /\ d[tile] >= minDistance
        /\ d[tile] > 0
        /\ areAllTilesAvailable(o, size, tile)}

\* The positions findPlaceForObject can return: a candidate with the largest
\* nearest-object distance (the first one of them in the scan order).
findPlaceForObject(o, d, area, size, minDistance, findAccessible) ==
    UNION {{t \in c : \A u \in c : d[u] <= d[t]} :
              c \in {findPlaceCandidates(o, d, area, size, minDistance, findAccessible)}}

\* --------------------------------------------------------------- distances
Min(a, b) == IF a < b THEN a ELSE b

\* Faulty variant: the distances are left as they were.
updateDistancesSkipped(d, pt, position) == d

\* updateDistances: every possible tile keeps the smaller of its distance and
\* the squared distance to the new object.
updateDistances(d, pt, position) ==
    [p \in Tiles |-> IF p \in pt THEN Min(distanceSquared(position, p), d[p]) ELSE d[p]]

\* ------------------------------------------------------------- placeObject
\* A partial generator state threaded through the placement helpers.
placementState(o, d, rn, objs) == [occ |-> o, nod |-> d, roadNodes |-> rn, objects |-> objs]

\* placeObject for a fortification: footprint and entrance become used, the
\* gap mask tiles outside the footprint become free, distances are updated
\* and the entrance becomes a road node.
placeFortification(st, pt, kind, size, position, mask, updateDistance) ==
    LET blocked == getBlockedPositions(size, position) \cup {getEntrance(size, position)}
        gaps == {t \in getTilesByMask(size, position, mask) : t \notin blocked /\ isInTheMap(t)}
        o1 == setOccupied(st.occ, blocked, "Used")
        o2 == IF mask > 0 THEN setOccupied(o1, gaps, "Free") ELSE o1
    IN  [occ |-> o2,
         nod |-> IF updateDistance THEN updateDistances(st.nod, pt, position) ELSE st.nod,
         roadNodes |-> st.roadNodes \cup {getEntrance(size, position)},
         objects |-> st.objects \cup {[kind |-> kind, size |-> size, pos |-> position,
                                       gap |-> mask]}]

\* Faulty variant: every placed object registers its entrance as a road node.
placeObjectAddingRoadNode(st, pt, kind, size, position, updateDistance) ==
    LET blocked == getBlockedPositions(size, position) \cup {getEntrance(size, position)}
    IN  [occ |-> setOccupied(st.occ, blocked, "Used"),
         nod |-> IF updateDistance THEN updateDistances(st.nod, pt, position) ELSE st.nod,
         roadNodes |-> st.roadNodes \cup {getEntrance(size, position)},
         objects |-> st.objects \cup {[kind |-> kind, size |-> size, pos |-> position,
                                       gap |-> 0]}]

\* placeObject for stacks, crystals, ruins, sites, bags and landmarks; only a
\* site adds a road node.
placeObject(st, pt, kind, size, position, updateDistance) ==
    LET blocked == getBlockedPositions(size, position) \cup {getEntrance(size, position)}
    IN  [occ |-> setOccupied(st.occ, blocked, "Used"),
         nod |-> IF updateDistance THEN updateDistances(st.nod, pt, position) ELSE st.nod,
         roadNodes |-> IF kind = "Site"
                       THEN st.roadNodes \cup {getEntrance(size, position)}
                       ELSE st.roadNodes,
         objects |-> st.objects \cup {[kind |-> kind, size |-> size, pos |-> position,
                                       gap |-> 0]}]

\* guardObject: a guard stack on the accessible offset of the element, or,
\* when the guard has no value, the tiles in front of the element freed.
guardObject(st, pt, size, position, hasGuard) ==
    LET tiles == getAccessibleTiles(st.occ, size, position)
        guardTile == getAccessibleOffset(st.occ, size, position)
    IN  IF tiles = {} THEN st
        ELSE IF ~hasGuard
        THEN [st EXCEPT !.occ = setOccupied(st.occ, {t \in tiles : isPossible(st.occ, t)}, "Free")]
        ELSE IF guardTile = Invalid THEN st
        ELSE placeObject(st, pt, "Stack", <<StackSize, StackSize>>, guardTile, TRUE)

clearEntrance(o, size, position) ==
    setOccupied(o, {p \in allNeighbors(Add(getEntrance(size, position), <<1, 1>>)) :
                        isPossible(o, p)}, "Free")

\* -------------------------------------------------------------- crunchPath
\* Faulty variant: a blocked neighbour nearer to the destination ends the
\* search with success.
processNeighborsStoppedByBlock(st, position, destination) ==
    IF st.result THEN st
    ELSE LET s1 == IF position = destination
                   THEN [st EXCEPT !.result = TRUE, !.end = TRUE] ELSE st
         IN  IF \/ distanceSquared(position, destination) >= s1.distance
                \/ zoneOf[position] # ZoneId
             THEN s1
             ELSE IF isPossible(s1.occ, position)
             THEN [s1 EXCEPT !.occ = setOccupied(s1.occ, {position}, "Free"),
                             !.cleared = @ \cup {position},
                             !.cur = position,
                             !.distance = distanceSquared(position, destination)]
             ELSE [s1 EXCEPT !.end = TRUE, !.result = TRUE]

\* One call of the processNeighbors lambda on a neighbour of the current tile.
processNeighbors(st, position, destination) ==
    IF st.result THEN st
    ELSE LET s1 == IF position = destination
                   THEN [st EXCEPT !.result = TRUE, !.end = TRUE] ELSE st
         IN  IF \/ distanceSquared(position, destination) >= s1.distance
                \/ isBlocked(s1.occ, position)
                \/ zoneOf[position] # ZoneId
             THEN s1
             ELSE IF isPossible(s1.occ, position)
             THEN [s1 EXCEPT !.occ = setOccupied(s1.occ, {position}, "Free"),
                             !.cleared = @ \cup {position},
                             !.cur = position,
                             !.distance = distanceSquared(position, destination)]
             ELSE [s1 EXCEPT !.end = TRUE, !.result = TRUE]

\* The neighbours of the current tile are visited in order.  The
\* lambda moves the current tile while the loop over its neighbours runs;
\* byRef tells whether the loop reads the moved tile or its own copy.
RECURSIVE crunchNeighbors(_, _, _, _, _, _)
crunchNeighbors(st, base, i, destination, dirs, byRef) ==
    IF i > Len(dirs) THEN st
    ELSE LET position == Add(IF byRef THEN st.cur ELSE base, dirs[i])
         IN  crunchNeighbors(IF isInTheMap(position)
                             THEN processNeighbors(st, position, destination) ELSE st,
                             base, i + 1, destination, dirs, byRef)

\* Faulty variant: the fallback step takes a possible tile of any zone.
crunchAnotherPositionAnyZone(o, cur, dirs, destination, distance) ==
    LET ok == {i \in 1 .. Len(dirs) :
                  LET q == Add(cur, dirs[i])
                  IN  isInTheMap(q) /\ isPossible(o, q)}
    IN  IF ok = {} \/ distanceSquared(cur, destination) >= 2 * distance THEN Invalid
        ELSE Add(cur, dirs[CHOOSE i \in ok : \A j \in ok : i <= j])

\* Faulty variant: the fallback step also takes a tile that is already free.
crunchAnotherPositionFreeToo(o, cur, dirs, destination, distance) ==
    LET ok == {i \in 1 .. Len(dirs) :
                  LET q == Add(cur, dirs[i])
                  IN  isInTheMap(q) /\ zoneOf[q] = ZoneId
                      /\ (isPossible(o, q) \/ isFree(o, q))}
    IN  IF ok = {} \/ distanceSquared(cur, destination) >= 2 * distance THEN Invalid
        ELSE Add(cur, dirs[CHOOSE i \in ok : \A j \in ok : i <= j])

\* The fallback step: the first possible in-zone neighbour, looked for only
\* while the current tile is nearer than twice the distance reached by the
\* last step towards the destination.
crunchAnotherPosition(o, cur, dirs, destination, distance) ==
    LET ok == {i \in 1 .. Len(dirs) :
                  LET q == Add(cur, dirs[i])
                  IN  isInTheMap(q) /\ zoneOf[q] = ZoneId /\ isPossible(o, q)}
    IN  IF ok = {} \/ distanceSquared(cur, destination) >= 2 * distance THEN Invalid
        ELSE Add(cur, dirs[CHOOSE i \in ok : \A j \in ok : i <= j])

\* One round of the while loop; end is set when the loop is left.
crunchRound(st, destination, dirs, byRef) ==
    IF st.cur = destination THEN [st EXCEPT !.result = TRUE, !.end = TRUE]
    ELSE LET s1 == crunchNeighbors(st, st.cur, 1, destination, dirs, byRef)
             another == crunchAnotherPosition(s1.occ, s1.cur, dirs, destination, s1.distance)
         IN  IF s1.result \/ s1.distance < st.distance THEN s1
             ELSE IF another # Invalid
             THEN [s1 EXCEPT !.occ = setOccupied(s1.occ, {another}, "Free"),
                             !.cleared = @ \cup {another},
                             !.cur = another]
             ELSE [s1 EXCEPT !.end = TRUE]

RECURSIVE crunchLoop(_, _, _, _)
crunchLoop(st, destination, dirs, byRef) ==
    IF st.end THEN st
    ELSE crunchLoop(crunchRound(st, destination, dirs, byRef), destination, dirs, byRef)

crunchPath(o, cleared, source, destination, onlyStraight, byRef) ==
    crunchLoop([cur |-> source, distance |-> distanceSquared(source, destination),
                occ |-> o, cleared |-> cleared, result |-> FALSE, end |-> FALSE],
               destination, IF onlyStraight THEN DirectDirs ELSE AllDirs, byRef)

\* -------------------------------------------------------------- fractalize
findClosestTile(tiles, p) ==
    {t \in tiles : \A u \in tiles : distanceSquared(p, t) <= distanceSquared(p, u)}

\* Every sequence of nodes the shuffled search can produce: each node is
\* farther than the minimal distance from all tiles cleared before it.
RECURSIVE fractalNodes(_, _)
fractalNodes(clearedTiles, candidates) ==
    LET ok == {t \in candidates :
                  \A c \in clearedTiles : distanceSquared(t, c) > FractalMinDistance}
    IN  IF ok = {} THEN {<<>>}
        ELSE UNION {{<<n>> \o s : s \in fractalNodes(clearedTiles \cup {n}, ok \ {n})} :
                        n \in ok}

\* The one or two nodes nearest to the node, nearest first.
nearbyNodes(node, nodes) ==
    LET others == SeqRange(nodes) \ {node}
        d(a) == distanceSquared(node, a)
    IN  IF others = {} THEN {<<>>}
        ELSE IF Cardinality(others) = 1 THEN {<<a>> : a \in others}
        ELSE {s \in {<<a, b>> : a \in others, b \in others} :
                 /\ s[1] # s[2]
                 /\ \A y \in others : d(s[1]) <= d(y)
                 /\ \A y \in others \ {s[1]} : d(s[2]) <= d(y)}

RECURSIVE crunchToNodes(_, _, _, _, _)
crunchToNodes(o, fp, node, targets, byRef) ==
    IF targets = <<>> THEN [occ |-> o, freePaths |-> fp]
    ELSE LET r == crunchPath(o, fp, node, Head(targets), TRUE, byRef)
         IN  crunchToNodes(r.occ, r.cleared, node, Tail(targets), byRef)

RECURSIVE fractalPaths(_, _, _, _)
fractalPaths(states, nodes, i, byRef) ==
    IF i > Len(nodes) THEN states
    ELSE fractalPaths(
            UNION {{crunchToNodes(st.occ, st.freePaths, nodes[i], <<c>> \o nb, byRef) :
                        c \in findClosestTile(st.freePaths, nodes[i]),
                        nb \in nearbyNodes(nodes[i], nodes)} : st \in states},
            nodes, i + 1, byRef)

\* Faulty variant: a tile is blocked only when it is the whole minimal
\* distance away from every passage.
blockDistantTilesAtMinDistance(o, fp) ==
    [t \in Tiles |->
        IF /\ zoneOf[t] = ZoneId
           /\ isPossible(o, t)
           /\ t \notin fp
           /\ \A c \in fp : distanceSquared(t, c) >= FractalMinDistance
        THEN "Blocked" ELSE o[t]]

\* The last loop of fractalize: a possible tile of the zone that is not a
\* passage and has no passage nearer than a quarter of the minimal distance
\* (distance < 0.25 * minDistance, in quarters here) is blocked.
blockDistantTiles(o, fp) ==
    [t \in Tiles |->
        IF /\ zoneOf[t] = ZoneId
           /\ isPossible(o, t)
           /\ t \notin fp
           /\ \A c \in fp : distanceSquared(t, c) * 4 >= FractalMinDistance
        THEN "Blocked" ELSE o[t]]

\* fractalize up to its last loop: free tiles join freePaths, nodes are
\* found, connected and set free.
fractalizeNodes(o, fp, type, byRef) ==
    LET fp1 == fp \cup {t \in tileInfo : isFree(o, t)}
        candidates == {t \in tileInfo : isPossible(o, t)}
        nodeSeqs == IF type = "Junction" THEN {<<>>} ELSE fractalNodes(fp1, candidates)
    IN  UNION {{[occ |-> setOccupied(st.occ, SeqRange(nodes), "Free"),
                 freePaths |-> st.freePaths, nodes |-> nodes] :
                   st \in fractalPaths({[occ |-> o, freePaths |-> fp1]}, nodes, 1, byRef)} :
               nodes \in nodeSeqs}

\* Every outcome of fractalize: free tiles join freePaths, nodes are found
\* and connected, and possible tiles far from every passage are blocked.
fractalizeTiles(o, fp, type, byRef) ==
    {[occ |-> blockDistantTiles(st.occ, st.freePaths),
      freePaths |-> st.freePaths, nodes |-> st.nodes] :
        st \in fractalizeNodes(o, fp, type, byRef)}

\* ------------------------------------------------------- connectWithCenter
\* Faulty variant: a blocked tile is as cheap to cross as a free one.
movementCostCheapBlocked(o, p, passThroughBlocked) ==
    IF isFree(o, p) THEN 1
    ELSE IF isPossible(o, p) THEN 2
    ELSE IF passThroughBlocked /\ shouldBeBlocked(o, p) THEN 1
    ELSE 0

\* Cost of entering a tile on the way to the zone centre.
movementCost(o, p, passThroughBlocked) ==
    IF isFree(o, p) THEN 1
    ELSE IF isPossible(o, p) THEN 2
    ELSE IF passThroughBlocked /\ shouldBeBlocked(o, p) THEN 3
    ELSE 0

\* Cheapest cost from the start to every in-zone tile, by relaxation.
RECURSIVE centerDistances(_, _, _, _)
centerDistances(o, dist, onlyStraight, passThroughBlocked) ==
    LET relax(p) ==
            LET from == {q \in neighbors(p, onlyStraight) : dist[q] < InfDistance}
                c == movementCost(o, p, passThroughBlocked)
                best(q) == \A r \in from : dist[q] <= dist[r]
            IN  IF zoneOf[p] # ZoneId \/ c = 0 \/ from = {} THEN dist[p]
                ELSE Min(dist[p], dist[CHOOSE q \in from : best(q)] + c)
        next == [p \in Tiles |-> relax(p)]
    IN  IF next = dist THEN dist
        ELSE centerDistances(o, next, onlyStraight, passThroughBlocked)

\* The tile sets the backtracking from tile t to the start can paint; the
\* start itself has no predecessor and is not painted.
RECURSIVE centerTraces(_, _, _, _, _, _)
centerTraces(o, dist, t, start, onlyStraight, passThroughBlocked) ==
    IF t = start THEN {{}}
    ELSE UNION {{tr \cup {t} : tr \in centerTraces(o, dist, q, start, onlyStraight,
                                                   passThroughBlocked)} :
                    q \in {q \in neighbors(t, onlyStraight) :
                              /\ dist[q] < InfDistance
                              /\ dist[q] + movementCost(o, t, passThroughBlocked) = dist[t]}}

connectWithCenter(o, center, position, onlyStraight, passThroughBlocked) ==
    LET d0 == [p \in Tiles |-> IF p = position THEN 0 ELSE InfDistance]
        dist == centerDistances(o, d0, onlyStraight, passThroughBlocked)
    IN  IF dist[center] = InfDistance
        THEN {[ok |-> FALSE, occ |-> o]}
        ELSE {[ok |-> TRUE, occ |-> setOccupied(o, tr, "Free")] :
                 tr \in centerTraces(o, dist, center, position, onlyStraight,
                                     passThroughBlocked)}

\* ------------------------------------------------------------ zone layouts
Rect(x1, x2, y1, y2) == (x1 .. x2) \X (y1 .. y2)

\* Two site-sized pockets next to a short passage.
ZoneSites ==
    [zone |-> Rect(2, 4, 1, 3) \cup Rect(1, 3, 4, 6)
                \cup {<<4, 4>>, <<4, 5>>, <<4, 6>>, <<4, 7>>, <<3, 7>>},
     pos |-> <<4, 4>>, entries |-> {<<4, 6>>}]

\* Room for the first village at the centre and one more city beside it, and
\* a spot for a landmark below them.
ZoneCities ==
    [zone |-> Rect(5, 8, 1, 4) \cup Rect(1, 4, 1, 4) \cup Rect(1, 8, 5, 5)
                \cup Rect(1, 3, 6, 8),
     pos |-> <<7, 3>>, entries |-> {<<0, 5>>}]

\* Three pockets for sites around the centre.
ZoneThree ==
    [zone |-> ZoneSites.zone \cup Rect(5, 7, 4, 6) \cup {<<5, 7>>, <<6, 7>>, <<7, 7>>},
     pos |-> <<4, 4>>, entries |-> {}]

\* A passage one tile wide.
ZoneRow ==
    [zone |-> Rect(1, 5, 2, 2), pos |-> <<1, 2>>, entries |-> {}]

\* A corridor along two sides of the map.
ZoneCorridor ==
    [zone |-> Rect(0, 9, 0, 0) \cup Rect(9, 9, 0, 9),
     pos |-> <<0, 0>>, entries |-> {}]

\* A start zone around a capital.
ZoneCapital ==
    [zone |-> Rect(2, 6, 2, 6) \cup Rect(2, 8, 7, 8) \cup Rect(7, 8, 6, 6),
     pos |-> <<4, 4>>, entries |-> {}]

NoSites == [merchants |-> <<>>, mages |-> <<>>, mercenaries |-> <<>>,
            trainers |-> <<>>, markets |-> <<>>]

EmptyTemplate ==
    [type |-> "Treasure", borderType |-> "Open", forest |-> 0, capitalGap |-> 0,
     cities |-> <<>>, sites |-> NoSites, ruins |-> 0,
     mines |-> [close |-> 0, required |-> 0],
     stacks |-> <<>>, bags |-> 0, decoForests |-> 0, decoLandmarks |-> 0]

SiteTemplates ==
    {[EmptyTemplate EXCEPT !.sites = [NoSites EXCEPT !.merchants = <<g1>>, !.mages = <<g2>>],
                           !.borderType = b, !.forest = f] :
        g1 \in BOOLEAN, g2 \in BOOLEAN, b \in {"Open", "Closed"}, f \in {0, 100}}

CityTemplates ==
    {[EmptyTemplate EXCEPT !.cities = <<[gap |-> 0, tier |-> 1], [gap |-> g, tier |-> t]>>,
                           !.borderType = "Closed", !.decoLandmarks = 1] :
        g \in {0, 1, 7}, t \in {1, 3}}

ThreeTemplates ==
    {[EmptyTemplate EXCEPT !.sites = [NoSites EXCEPT !.merchants = <<g1>>, !.mages = <<g2>>,
                                                     !.markets = third.markets],
                           !.ruins = third.ruins, !.mines = third.mines] :
        g1 \in BOOLEAN, g2 \in {TRUE},
        third \in {[markets |-> <<TRUE>>, ruins |-> 0, mines |-> EmptyTemplate.mines],
                   [markets |-> <<>>, ruins |-> 1, mines |-> EmptyTemplate.mines],
                   [markets |-> <<>>, ruins |-> 0, mines |-> [close |-> 0, required |-> 1]],
                   [markets |-> <<>>, ruins |-> 0, mines |-> [close |-> 1, required |-> 0]]}}

RowTemplates ==
    {[EmptyTemplate EXCEPT !.stacks = st, !.bags = b, !.forest = 50,
                           !.borderType = "SemiOpen"] :
        st \in {<<>>, <<[count |-> 1, value |-> TRUE]>>, <<[count |-> 1, value |-> FALSE]>>},
        b \in {0, 1}}

CorridorTemplates ==
    {[EmptyTemplate EXCEPT !.type = t, !.borderType = b] :
        t \in {"Treasure", "Junction"}, b \in {"Open", "Closed", "Water"}}

\* Gap mask, bags, decoration forests and stack groups of the start zones.
CapitalChoices ==
    {c \in {0, 2} \X {0, 1} \X {0, 1}
             \X {<<>>, <<[count |-> 1, value |-> TRUE], [count |-> 1, value |-> FALSE]>>} :
        /\ c[4] = <<>> \/ (c[1] = 0 /\ c[3] = 0)
        /\ c[3] = 1 => c[2] = 0}

CapitalTemplates ==
    {[EmptyTemplate EXCEPT !.type = "PlayerStart", !.capitalGap = c[1], !.bags = c[2],
                           !.stacks = c[4], !.borderType = "Closed", !.decoForests = c[3]] :
        c \in CapitalChoices}

Configs ==
    {[layout |-> ZoneSites, tmpl |-> t] : t \in SiteTemplates}
    \cup {[layout |-> ZoneCities, tmpl |-> t] : t \in CityTemplates}
    \cup {[layout |-> ZoneCorridor, tmpl |-> t] : t \in CorridorTemplates}
    \cup {[layout |-> ZoneRow, tmpl |-> t] : t \in RowTemplates}
    \cup {[layout |-> ZoneThree, tmpl |-> t] : t \in ThreeTemplates}
    \cup {[layout |-> ZoneCapital, tmpl |-> t] : t \in CapitalTemplates}

DecorationKinds == {"Capital", "Village", "Crystal", "Site"}

NoFilters == [set |-> FALSE, size |-> 0, tier |-> 0]

NoAttempt == [op |-> "none", result |-> "none", before |-> <<>>, after |-> <<>>,
              size |-> <<0, 0>>, position |-> Invalid, sealed |-> {},
              target |-> Invalid, straight |-> FALSE, through |-> FALSE, byRef |-> FALSE,
              possibleBefore |-> {}, trace |-> {}]

NoTodo == [i |-> 0, positions |-> {}, entries |-> {}, required |-> 0, close |-> 0,
           copy |-> {}, processed |-> {}]

\* A state of the generator with the zones laid out and nothing placed:
\* occupancy o, possible tiles pt, the landmark filter lists of the process f.
Begin(c, f, o, pt, phase) ==
        /\ zoneOf = [p \in Tiles |-> IF p \in c.layout.zone THEN ZoneId ELSE OtherZoneId]
        /\ pos = c.layout.pos
        /\ tmpl = c.tmpl
        /\ filters = f
        /\ occ = o
        /\ ground = [p \in Tiles |-> "Plain"]
        /\ road = [p \in Tiles |-> FALSE]
        /\ nod = [p \in Tiles |-> InfDistance]
        /\ possibleTiles = pt
        /\ freePaths = {}
        /\ roadNodes = {}
        /\ roads = <<>>
        /\ objects = {}
        /\ decorations = <<>>
        /\ todo = [NoTodo EXCEPT !.entries = c.layout.entries]
        /\ pc = phase
        /\ last = NoAttempt

\* The state a generation starts in: every tile is possible.
Start(c, f) == Begin(c, f, [p \in Tiles |-> "Possible"], {}, "initTowns")

\* The first generation of a process: no filter list is built yet.
Init == \E c \in Configs : Start(c, [k \in DecorationKinds |-> NoFilters])

\* The filter lists a process can hold when a generation starts: none, or the
\* village list built by an earlier generation from its first village.
ProcessFilters ==
    {[k \in DecorationKinds |-> IF k = "Village" THEN v ELSE NoFilters] :
        v \in {NoFilters} \cup {[set |-> TRUE, size |-> CitySize, tier |-> t] : t \in {1, 3}}}

\* A generation in a process that may have generated maps before.
InitProcess ==
    \E c \in {[layout |-> ZoneCities, tmpl |-> t] : t \in CityTemplates} :
        \E f \in ProcessFilters : Start(c, f)

\* ------------------------------------------------------------------ actions
isStartZone == tmpl.type \in {"PlayerStart", "AiStart"}

decoration(kind, size, position, tier) ==
    [kind |-> kind, size |-> size, pos |-> position, tier |-> tier]

\* placeCity: the village, its decoration and the cleared entrance.
placeCity(st, pt, position, mask) ==
    LET size == <<CitySize, CitySize>>
        s1 == placeFortification(st, pt, "Village", size, position, mask, TRUE)
    IN  [s1 EXCEPT !.occ = clearEntrance(s1.occ, size, position)]

\* placeCapital: the capital in the middle of the zone with its visitor stack.
placeCapital(st, pt, center, mask) ==
    LET size == <<CapitalSize, CapitalSize>>
        position == Sub(center, <<CapitalSize \div 2, CapitalSize \div 2>>)
        s1 == placeFortification(st, pt, "Capital", size, position, mask, TRUE)
        s2 == [s1 EXCEPT !.occ = clearEntrance(s1.occ, size, position)]
    IN  placeObject(s2, pt, "Stack", <<StackSize, StackSize>>, position, TRUE)

curState == placementState(occ, nod, roadNodes, objects)

initTowns ==
    /\ pc = "initTowns"
    /\ pc' = "connectZones"
    /\ IF isStartZone
       THEN LET st == placeCapital(curState, possibleTiles, pos, tmpl.capitalGap)
                position == Sub(pos, <<CapitalSize \div 2, CapitalSize \div 2>>)
            IN  /\ occ' = st.occ /\ nod' = st.nod /\ roadNodes' = st.roadNodes
                /\ objects' = st.objects
                /\ decorations' = Append(decorations,
                        decoration("Capital", <<CapitalSize, CapitalSize>>, position, 0))
                /\ pos' = Add(getEntrance(<<CapitalSize, CapitalSize>>, position), <<1, 1>>)
       ELSE IF tmpl.cities # <<>>
       THEN LET position == Sub(pos, <<2, 2>>)
                st == placeCity(curState, possibleTiles, position, tmpl.cities[1].gap)
            IN  /\ occ' = st.occ /\ nod' = st.nod /\ roadNodes' = st.roadNodes
                /\ objects' = st.objects
                /\ decorations' = Append(decorations,
                        decoration("Village", <<CitySize, CitySize>>, position,
                                   tmpl.cities[1].tier))
                /\ pos' = Add(getEntrance(<<CitySize, CitySize>>, position), <<1, 1>>)
       ELSE UNCHANGED <<occ, nod, roadNodes, objects, decorations, pos>>
    /\ UNCHANGED <<ground, road, zoneOf, tmpl, filters, possibleTiles, freePaths, roads, todo, last>>

\* The connections of the zone: each entry is linked with the zone centre.
connectZones ==
    /\ pc = "connectZones"
    /\ IF todo.entries = {}
       THEN /\ pc' = "initTerrain"
            /\ UNCHANGED <<occ, todo>>
       ELSE \E e \in todo.entries :
               \E r \in connectWithCenter(occ, pos, e, TRUE, TRUE) :
                   /\ occ' = r.occ
                   /\ todo' = [todo EXCEPT !.entries = @ \ {e}]
                   /\ pc' = pc
    /\ UNCHANGED <<ground, road, nod, zoneOf, tmpl, filters, pos, possibleTiles, freePaths,
                   roadNodes, roads, objects, decorations, last>>

initTerrain ==
    /\ pc = "initTerrain"
    /\ pc' = "initFreeTiles"
    /\ ground' = IF tmpl.type = "Water"
                 THEN [p \in Tiles |-> IF zoneOf[p] = ZoneId THEN "Water" ELSE ground[p]]
                 ELSE ground
    /\ UNCHANGED <<occ, road, nod, zoneOf, tmpl, filters, pos, possibleTiles, freePaths,
                   roadNodes, roads, objects, decorations, todo, last>>

initFreeTiles ==
    /\ pc = "initFreeTiles"
    /\ pc' = "fractalize"
    /\ possibleTiles' = possibleTiles \cup {p \in tileInfo : isPossible(occ, p)}
    /\ IF freePaths = {}
       THEN /\ occ' = setOccupied(occ, {pos}, "Free")
            /\ freePaths' = freePaths \cup {pos}
       ELSE UNCHANGED <<occ, freePaths>>
    /\ UNCHANGED <<ground, road, nod, zoneOf, tmpl, filters, pos, roadNodes, roads, objects,
                   decorations, todo, last>>

fractalize ==
    /\ pc = "fractalize"
    /\ pc' = "placeCities"
    /\ \E byRef \in BOOLEAN :
          \E r \in fractalizeTiles(occ, freePaths, tmpl.type, byRef) :
              /\ occ' = r.occ
              /\ freePaths' = r.freePaths
    /\ UNCHANGED <<ground, road, nod, zoneOf, tmpl, filters, pos, possibleTiles, roadNodes,
                   roads, objects, decorations, todo, last>>

siteSize == <<SiteSize, SiteSize>>

citySize == <<CitySize, CitySize>>

stackSize == <<StackSize, StackSize>>

\* placeMerchant, placeMage, placeMercenary, placeTrainer, placeMarket: the
\* site and then its guard.
placeSite(st, pt, position, hasGuard) ==
    guardObject(placeObject(st, pt, "Site", siteSize, position, TRUE),
                pt, siteSize, position, hasGuard)

\* What the placement loop of a step places at the position it found: a city
\* with its gap mask, a site with its guard, a ruin or a bag.
placeKind(st, pt, position, kind, info) ==
    IF kind = "Village" THEN placeCity(st, pt, position, info.gap)
    ELSE IF kind = "Site" THEN placeSite(st, pt, position, info)
    ELSE IF kind = "Ruin" THEN placeObject(st, pt, "Ruin", siteSize, position, TRUE)
    ELSE placeObject(st, pt, "Bag", stackSize, position, TRUE)

\* The decorations the step adds for the object: a city is decorated by
\* placeCity and once more by placeCities, a bag not at all.
decorationsOf(kind, info, position) ==
    IF kind = "Village"
    THEN <<decoration("Village", citySize, position, info.tier),
           decoration("Village", citySize, position, info.tier)>>
    ELSE IF kind = "Site" THEN <<decoration("Site", siteSize, position, 0)>>
    ELSE IF kind = "Ruin" THEN <<decoration("Ruin", siteSize, position, 0)>>
    ELSE <<>>

\* What a call of tryToPlaceObjectAndConnectToPath did, kept in last.
attempt(r, size, position) ==
    [NoAttempt EXCEPT !.op = "tryToPlace", !.result = r.result, !.before = occ,
                      !.after = r.occ, !.size = size, !.position = position,
                      !.sealed = r.sealed]

\* One round of a placement loop: the step is over when all objects are
\* placed; otherwise a place is searched, the object is tried there and, on
\* success, placed.  A failed try leaves the loop where it was.
placeLoop(phase, nextPhase, kind, infos, first, size, minDistance) ==
    /\ pc = phase
    /\ IF todo.i >= Len(infos) - first
       THEN /\ pc' = nextPhase
            /\ todo' = [todo EXCEPT !.i = 0]
            /\ UNCHANGED <<occ, nod, possibleTiles, roadNodes, objects, decorations, last>>
       ELSE LET places == findPlaceForObject(occ, nod, tileInfo, size, minDistance, TRUE)
                info == infos[todo.i + 1 + first]
            IN  IF places = {}
                THEN /\ pc' = "LackOfSpace"
                     /\ UNCHANGED <<occ, nod, possibleTiles, roadNodes, objects,
                                    decorations, todo, last>>
                ELSE \E position \in places :
                        \E r \in tryToPlaceObjectAndConnectToPath(occ, possibleTiles,
                                                                   size, position) :
                            /\ last' = attempt(r, size, position)
                            /\ possibleTiles' = r.possibleTiles
                            /\ IF r.result = "Success"
                               THEN LET st == placeKind(placementState(r.occ, nod, roadNodes,
                                                                       objects),
                                                        r.possibleTiles, position, kind, info)
                                    IN  /\ occ' = st.occ /\ nod' = st.nod
                                        /\ roadNodes' = st.roadNodes
                                        /\ objects' = st.objects
                                        /\ decorations' = decorations
                                                            \o decorationsOf(kind, info, position)
                                        /\ todo' = [todo EXCEPT !.i = @ + 1]
                               ELSE /\ occ' = r.occ
                                    /\ UNCHANGED <<nod, roadNodes, objects, decorations, todo>>
                            /\ pc' = pc
    /\ UNCHANGED <<ground, road, zoneOf, tmpl, filters, pos, freePaths, roads>>

\* placeCities: the first city of a zone without a capital stands already.
citiesPlacedBefore == IF isStartZone \/ tmpl.cities = <<>> THEN 0 ELSE 1

placeCities ==
    placeLoop("placeCities", "placeMerchants", "Village", tmpl.cities, citiesPlacedBefore,
              citySize, CitySize * 2)

placeSites(phase, nextPhase, infos) ==
    placeLoop(phase, nextPhase, "Site", infos, 0, siteSize, SiteSize * 2)

placeMerchants == placeSites("placeMerchants", "placeMages", tmpl.sites.merchants)

placeMages == placeSites("placeMages", "placeMercenaries", tmpl.sites.mages)

placeMercenaries == placeSites("placeMercenaries", "placeTrainers", tmpl.sites.mercenaries)

placeTrainers == placeSites("placeTrainers", "placeMarkets", tmpl.sites.trainers)

placeMarkets == placeSites("placeMarkets", "placeRuins", tmpl.sites.markets)

placeRuins ==
    placeLoop("placeRuins", "placeMines", "Ruin", [i \in 1 .. tmpl.ruins |-> TRUE], 0,
              siteSize, SiteSize * 2)

placeBags ==
    placeLoop("placeBags", "createBorder", "Bag", [i \in 1 .. tmpl.bags |-> TRUE], 0,
              stackSize, StackSize * 2)

\* Faulty variant: the queued crystals are left for after the stacks.
placeMinesThenStacks ==
    /\ pc = "placeMines"
    /\ pc' = "placeStacks"
    /\ todo' = [todo EXCEPT !.required = tmpl.mines.required, !.close = tmpl.mines.close]
    /\ UNCHANGED <<occ, ground, road, nod, zoneOf, tmpl, filters, pos, possibleTiles, freePaths,
                   roadNodes, roads, objects, decorations, last>>

\* placeMines: the first gold and native crystals become close objects, the
\* other crystals required objects; they are placed by createRequiredObjects.
placeMines ==
    /\ pc = "placeMines"
    /\ pc' = "createRequiredObjects"
    /\ todo' = [todo EXCEPT !.required = tmpl.mines.required, !.close = tmpl.mines.close]
    /\ UNCHANGED <<occ, ground, road, nod, zoneOf, tmpl, filters, pos, possibleTiles, freePaths,
                   roadNodes, roads, objects, decorations, last>>

crystalSize == <<CrystalSize, CrystalSize>>

crystalArea == <<CrystalAreaSize, CrystalAreaSize>>

\* Tiles a close object can be tried at.  The comparator that orders them
\* works on floating-point square roots, so any of them can come first.
closeObjectTiles ==
    {tile \in possibleTiles :
        /\ ~isAtTheBorder(tile)
        /\ ~isElementAtTheBorder(crystalArea, tile)
        /\ isAccessibleFromSomewhere(occ, crystalArea, tile)}

\* Faulty variant: the crystal is placed and its decoration forgotten.
placeCrystalWithoutDecoration(r, position) ==
    LET st == placeObject(placementState(r.occ, nod, roadNodes, objects),
                          r.possibleTiles, "Crystal", crystalSize, position, TRUE)
    IN  /\ occ' = st.occ /\ nod' = st.nod /\ roadNodes' = st.roadNodes
        /\ objects' = st.objects
        /\ decorations' = decorations

placeCrystal(r, position) ==
    LET st == placeObject(placementState(r.occ, nod, roadNodes, objects),
                          r.possibleTiles, "Crystal", crystalSize, position, TRUE)
    IN  /\ occ' = st.occ /\ nod' = st.nod /\ roadNodes' = st.roadNodes
        /\ objects' = st.objects
        /\ decorations' = Append(decorations, decoration("Crystal", crystalSize, position, 0))

createRequiredObjects ==
    /\ pc = "createRequiredObjects"
    /\ IF todo.required > 0
       THEN LET places == findPlaceForObject(occ, nod, tileInfo, crystalArea,
                                             CrystalSize * 2, TRUE)
            IN  IF places = {}
                THEN /\ pc' = "LackOfSpace"
                     /\ UNCHANGED <<occ, nod, possibleTiles, roadNodes, objects,
                                    decorations, todo, last>>
                ELSE \E place \in places :
                        LET position == Add(place, <<CrystalAreaSize \div 2,
                                                     CrystalAreaSize \div 2>>)
                        IN  \E r \in tryToPlaceObjectAndConnectToPath(occ, possibleTiles,
                                                                      crystalSize, position) :
                              /\ last' = attempt(r, crystalSize, position)
                              /\ possibleTiles' = r.possibleTiles
                              /\ IF r.result = "Success"
                                 THEN /\ placeCrystal(r, position)
                                      /\ todo' = [todo EXCEPT !.required = @ - 1]
                                      /\ pc' = pc
                                 ELSE /\ occ' = r.occ
                                      /\ pc' = "LackOfSpace"
                                      /\ UNCHANGED <<nod, roadNodes, objects, decorations,
                                                     todo>>
       ELSE IF todo.close > 0
       THEN LET available == {t \in closeObjectTiles :
                                 areAllTilesAvailable(occ, crystalArea, t)}
            IN  IF available = {}
                THEN /\ pc' = "LackOfSpace"
                     /\ UNCHANGED <<occ, nod, possibleTiles, roadNodes, objects,
                                    decorations, todo, last>>
                ELSE \E tile \in available :
                        LET position == Add(tile, <<CrystalAreaSize \div 2,
                                                    CrystalAreaSize \div 2>>)
                        IN  \E r \in tryToPlaceObjectAndConnectToPath(occ, possibleTiles,
                                                                      crystalSize, position) :
                              /\ last' = attempt(r, crystalSize, position)
                              /\ possibleTiles' = r.possibleTiles
                              /\ pc' = pc
                              /\ IF r.result = "Success"
                                 THEN /\ placeCrystal(r, position)
                                      /\ todo' = [todo EXCEPT !.close = @ - 1]
                                 ELSE /\ occ' = r.occ
                                      /\ UNCHANGED <<nod, roadNodes, objects, decorations,
                                                     todo>>
       ELSE /\ pc' = "placeStacks"
            /\ UNCHANGED <<occ, nod, possibleTiles, roadNodes, objects, decorations,
                           todo, last>>
    /\ UNCHANGED <<ground, road, zoneOf, tmpl, filters, pos, freePaths, roads>>

\* ------------------------------------------------------------- placeStacks
RECURSIVE SumCounts(_)
SumCounts(groups) ==
    IF groups = <<>> THEN 0 ELSE Head(groups).count + SumCounts(Tail(groups))

stacksTotal == SumCounts(tmpl.stacks)

stacksCreated == SumCounts(SelectSeq(tmpl.stacks, LAMBDA g : g.value))

RECURSIVE placeStacksAt(_, _, _)
placeStacksAt(st, pt, positions) ==
    IF positions = {} THEN st
    ELSE LET p == CHOOSE x \in positions : TRUE
         IN  placeStacksAt(placeObject(st, pt, "Stack", stackSize, p, TRUE), pt,
                           positions \ {p})

\* placeStacks: first a place for every stack is found and reserved, then
\* the stacks that could be created are put on the shuffled places.
placeStacks ==
    /\ pc = "placeStacks"
    /\ IF todo.i < stacksTotal
       THEN LET places == findPlaceForObject(occ, nod, tileInfo, stackSize,
                                             StackMinDistance, TRUE)
            IN  IF places = {}
                THEN /\ pc' = "LackOfSpace"
                     /\ UNCHANGED <<occ, nod, possibleTiles, roadNodes, objects, todo, last>>
                ELSE \E position \in places :
                        \E r \in tryToPlaceObjectAndConnectToPath(occ, possibleTiles,
                                                                   stackSize, position) :
                            /\ last' = attempt(r, stackSize, position)
                            /\ possibleTiles' = r.possibleTiles
                            /\ occ' = r.occ
                            /\ pc' = pc
                            /\ IF r.result = "Success"
                               THEN /\ nod' = updateDistances(nod, r.possibleTiles, position)
                                    /\ todo' = [todo EXCEPT !.i = @ + 1,
                                                            !.positions = @ \cup {position}]
                               ELSE UNCHANGED <<nod, todo>>
                            /\ UNCHANGED <<roadNodes, objects>>
       ELSE \E used \in SUBSET todo.positions :
               /\ Cardinality(used) = stacksCreated
               /\ LET st == placeStacksAt(curState, possibleTiles, used)
                  IN  /\ occ' = st.occ /\ nod' = st.nod /\ objects' = st.objects
               /\ pc' = "placeBags"
               /\ todo' = [todo EXCEPT !.i = 0, !.positions = {}]
               /\ UNCHANGED <<possibleTiles, roadNodes, last>>
    /\ UNCHANGED <<ground, road, zoneOf, tmpl, filters, pos, freePaths, roads, decorations>>

\* ------------------------------------------------------------ createBorder
isBorderTile(tile) == \E q \in allNeighbors(tile) : zoneOf[q] # ZoneId

\* Faulty variant: the border tiles are set whatever their occupancy.
borderTilesOfAnyOccupancy(o) == {t \in tileInfo : isBorderTile(t)}

\* The tiles createBorder sets: the border tiles that are still possible.
borderTiles(o) == {t \in tileInfo : isBorderTile(t) /\ isPossible(o, t)}

createBorder ==
    /\ pc = "createBorder"
    /\ pc' = "decorate"
    /\ LET border == borderTiles(occ)
           choices == IF tmpl.borderType = "SemiOpen" THEN SUBSET border
                      ELSE IF tmpl.borderType = "Closed" THEN {{}} ELSE {border}
       IN  \E gaps \in choices :
              /\ occ' = [t \in Tiles |-> IF t \in gaps THEN "Free"
                                         ELSE IF t \in border THEN "Blocked" ELSE occ[t]]
              /\ ground' = IF tmpl.borderType = "Water"
                           THEN [t \in Tiles |-> IF t \in border THEN "Water" ELSE ground[t]]
                           ELSE ground
    /\ last' = [NoAttempt EXCEPT !.op = "createBorder", !.before = occ, !.after = occ']
    /\ UNCHANGED <<road, nod, zoneOf, tmpl, filters, pos, possibleTiles, freePaths, roadNodes,
                   roads, objects, decorations, todo>>

\* ------------------------------------------------------------- decorations
\* The landmarks of the game catalog.
Landmarks ==
    {[id |-> "Skeleton", size |-> <<1, 1>>, mountain |-> FALSE, type |-> "Misc"],
     [id |-> "Hut", size |-> <<1, 1>>, mountain |-> FALSE, type |-> "Building"],
     [id |-> "Peak", size |-> <<2, 2>>, mountain |-> TRUE, type |-> "Building"]}

decorationGap(kind) ==
    IF kind \in {"Village", "Ruin"} THEN 4 ELSE IF kind = "Crystal" THEN 1 ELSE 3

getMapElementArea(o, size, position, gap) ==
    LET entrance == getEntrance(size, position)
        blocked == getBlockedPositions(size, position) \cup {entrance}
                     \cup {Add(entrance, off) : off \in getEntranceOffsets}
    IN  {tile \in Rect(position[1] - gap, position[1] + size[1] + gap - 1,
                       position[2] - gap, position[2] + size[2] + gap - 1) :
            tile \notin blocked /\ isInTheMap(tile) /\ isPossible(o, tile)}

getMinLandmarkDistance(kind, info) ==
    IF kind \in {"Village", "Site", "Ruin"} THEN info.size[1] * 3 ELSE info.size[1] * 2

\* The filter list of a decoration kind is built once, from the first object
\* of the kind that is decorated; f is what the list has captured.
captureFilters(f, dec) ==
    IF dec.kind = "Ruin" \/ f[dec.kind].set THEN f
    ELSE [f EXCEPT ![dec.kind] = [set |-> TRUE, size |-> dec.size[1], tier |-> dec.tier]]

\* A filter that holds for a landmark removes it from the choice.
isFilteredOut(kind, captured, info) ==
    IF kind = "Capital" THEN info.size[1] >= captured.size \/ info.mountain
    ELSE IF kind = "Village"
    THEN \/ info.size[1] > captured.size
         \/ info.mountain
         \/ (info.type = "Misc" /\ captured.tier >= 3)
    ELSE IF kind = "Crystal" THEN info.size[1] > captured.size \/ info.mountain
    ELSE IF kind = "Site" THEN info.size[1] > captured.size
    ELSE FALSE

pickLandmark(kind, captured) == {info \in Landmarks : ~isFilteredOut(kind, captured, info)}

\* One round of the landmark loop on every state of the set.
placeLandmark(st, kind, captured) ==
    LET allowed == pickLandmark(kind, captured)
    IN  IF allowed = {} THEN {st}
        ELSE UNION {
            LET places == findPlaceForObject(st.occ, st.nod, st.area, info.size,
                                             getMinLandmarkDistance(kind, info), FALSE)
            IN  IF places = {} THEN {st}
                ELSE {LET s1 == placeObject(placementState(st.occ, st.nod, st.roadNodes,
                                                           st.objects),
                                            possibleTiles, info.id, info.size, position, TRUE)
                      IN  [occ |-> s1.occ, nod |-> s1.nod, roadNodes |-> s1.roadNodes,
                           objects |-> s1.objects,
                           ground |-> [t \in Tiles |->
                                         IF t \in getBlockedPositions(info.size, position)
                                         THEN "Plain" ELSE st.ground[t]],
                           area |-> st.area \ getBlockedPositions(info.size, position),
                           called |-> TRUE] :
                        position \in places} : info \in allowed}

RECURSIVE placeLandmarks(_, _, _, _)
placeLandmarks(states, n, kind, captured) ==
    IF n = 0 THEN states
    ELSE placeLandmarks(UNION {placeLandmark(st, kind, captured) : st \in states},
                        n - 1, kind, captured)

\* The subsets of n tiles of a set.
RECURSIVE tilesOutOf(_, _)
tilesOutOf(tiles, n) ==
    IF n = 0 THEN {{}}
    ELSE UNION {{chosen \cup {t} : chosen \in tilesOutOf(tiles \ {t}, n - 1)} : t \in tiles}

\* Decoration::placeForests: trees on the first tiles of the shuffled area.
placeForests(st, forestsTotal, erase) ==
    {[st EXCEPT !.occ = setOccupied(st.occ, trees, "Used"),
                !.ground = [t \in Tiles |-> IF t \in trees THEN "Forest" ELSE st.ground[t]],
                !.area = IF erase THEN st.area \ trees ELSE st.area] :
        trees \in tilesOutOf(st.area, Min(forestsTotal, Cardinality(st.area)))}

\* Decoration::decorate and CrystalDecoration::decorate.
decorateOutcomes(dec, captured, landmarksTotal, forestsTotal) ==
    LET area == getMapElementArea(occ, dec.size, dec.pos, decorationGap(dec.kind))
        st == [occ |-> occ, nod |-> nod, roadNodes |-> roadNodes, objects |-> objects,
               ground |-> ground, area |-> area, called |-> FALSE]
        call(s) == [s EXCEPT !.called = TRUE]
    IN  IF area = {} THEN {st}
        ELSE IF dec.kind = "Crystal"
        THEN UNION {IF s1.area = {} THEN {s1}
                    ELSE placeLandmarks({call(s1)}, landmarksTotal, dec.kind, captured) :
                        s1 \in placeForests(st, forestsTotal, TRUE)}
        ELSE UNION {IF s1.area = {} THEN {s1} ELSE placeForests(s1, forestsTotal, FALSE) :
                        s1 \in placeLandmarks({call(st)}, landmarksTotal, dec.kind, captured)}

\* One decoration of the list made during the fill is applied.
decorate ==
    /\ pc = "decorate"
    /\ IF todo.i >= Len(decorations)
       THEN /\ pc' = "createObstacles"
            /\ decorations' = <<>>
            /\ todo' = [todo EXCEPT !.i = 0]
            /\ UNCHANGED <<occ, ground, nod, roadNodes, objects, filters>>
       ELSE LET dec == decorations[todo.i + 1]
                captured == captureFilters(filters, dec)
            IN  \E landmarksTotal \in 0 .. tmpl.decoLandmarks,
                   forestsTotal \in 0 .. tmpl.decoForests :
                  \E r \in decorateOutcomes(dec, IF dec.kind = "Ruin" THEN NoFilters
                                                 ELSE captured[dec.kind],
                                            landmarksTotal, forestsTotal) :
                      /\ occ' = r.occ /\ ground' = r.ground /\ nod' = r.nod
                      /\ roadNodes' = r.roadNodes /\ objects' = r.objects
                      /\ filters' = IF r.called THEN captured ELSE filters
                      /\ todo' = [todo EXCEPT !.i = @ + 1]
                      /\ pc' = pc
                      /\ UNCHANGED decorations
    /\ UNCHANGED <<road, zoneOf, tmpl, pos, possibleTiles, freePaths, roads, last>>

\* ---------------------------------------------------------- createObstacles
\* The sizes of the mountains of the game settings, biggest first.
MountainSizes == <<2, 1>>

canObstacleBePlacedHere(o, size, position) ==
    /\ isInTheMap(position)
    /\ \A off \in getBlockedOffsets(size) :
          isInTheMap(Add(position, off)) /\ shouldBeBlocked(o, Add(position, off))

\* Mountains on the tiles that should be blocked.  Every blocked tile takes
\* at least the smallest mountain, whatever the order the tiles are visited in.
RECURSIVE placeMountains(_, _, _)
placeMountains(o, g, tiles) ==
    IF tiles = {} THEN [occ |-> o, ground |-> g]
    ELSE LET tile == CHOOSE t \in tiles : TRUE
             fits == {i \in 1 .. Len(MountainSizes) :
                         canObstacleBePlacedHere(o, <<MountainSizes[i], MountainSizes[i]>>, tile)}
         IN  IF ~shouldBeBlocked(o, tile) \/ fits = {}
             THEN placeMountains(o, g, tiles \ {tile})
             ELSE LET n == MountainSizes[CHOOSE i \in fits : \A j \in fits : i <= j]
                      area == getBlockedPositions(<<n, n>>, tile)
                  IN  placeMountains(setOccupied(o, area, "Used"),
                                     [t \in Tiles |-> IF t \in area THEN "Mountain" ELSE g[t]],
                                     tiles \ {tile})

\* Faulty variant: the forest pass plants every tile left, whatever the setting.
forestTilesIgnoringSetting(left) == {{t \in left : ~road[t]}}

\* The sets of tiles the forest pass can plant, out of the tiles left possible:
\* none with the forest setting 0, all that carry no road with 100, and any of
\* them (one chance draw per tile) in between.
forestTiles(left) ==
    IF tmpl.forest = 0 THEN {{}}
    ELSE IF tmpl.forest = 100 THEN {{t \in left : ~road[t]}}
    ELSE SUBSET {t \in left : ~road[t]}

\* The rest of createObstacles: mountains, then forests on what is left; the
\* possible tiles that get no tree become free.
createObstacles ==
    /\ pc = "createObstacles"
    /\ pc' = "connectRoads"
    /\ LET m == placeMountains(occ, ground, tileInfo)
           left == {t \in tileInfo : isPossible(m.occ, t)}
       IN  \E trees \in forestTiles(left) :
              /\ occ' = [t \in Tiles |-> IF t \in trees THEN "Used"
                                         ELSE IF t \in left THEN "Free" ELSE m.occ[t]]
              /\ ground' = [t \in Tiles |-> IF t \in trees THEN "Forest" ELSE m.ground[t]]
    /\ last' = [NoAttempt EXCEPT !.op = "createObstacles", !.before = occ]
    /\ UNCHANGED <<road, nod, zoneOf, tmpl, filters, pos, possibleTiles, freePaths,
                   roadNodes, roads, objects, decorations, todo>>

\* --------------------------------------------------------------- createRoad
\* Movement costs in tenths: a straight step costs 1, a diagonal step 2.1.
StraightCost == 10
DiagonalCost == 21

isWater(p) == ground[p] = "Water"

\* A tile is visitable when an object inserted into the map has its entrance there.
isVisitable(p) == \E obj \in objects : getEntrance(obj.size, obj.pos) = p

canMoveBetween(a, b) ==
    /\ isVisitable(b) => isVisitableFrom(Sub(a, b))
    /\ isVisitable(a) => isVisitableFrom(Sub(b, a))

\* The neighbours of the popped node the functor accepts at the given cost.
roadNeighbors(s, cur, d, candidates, cost, destination) ==
    {p \in candidates :
        /\ p \notin s.closed
        /\ d + cost < s.dist[p]
        /\ ~isWater(p)
        /\ \/ isFree(occ, p) /\ isFree(occ, cur)
           \/ (isVisitable(p) \/ isVisitable(cur)) /\ canMoveBetween(cur, p)
           \/ p = destination
        /\ zoneOf[p] = ZoneId \/ p = destination}

RECURSIVE roadBacktrack(_, _)
roadBacktrack(cameFrom, t) ==
    IF cameFrom[t] = Invalid THEN <<>>
    ELSE <<t>> \o roadBacktrack(cameFrom, cameFrom[t])

\* Every way to pop the cheapest node of the queue and expand it.
roadExpand(s, rd, destination) ==
    LET cheapest == {e \in s.queue : \A f \in s.queue : e[2] <= f[2]}
    IN  {LET cur == e[1]
             d == e[2]
             s1 == [s EXCEPT !.closed = @ \cup {cur}, !.queue = @ \ {e}]
             direct == roadNeighbors(s1, cur, d, directNeighbors(cur), StraightCost,
                                     destination)
             diagonal == roadNeighbors(s1, cur, d, diagonalNeighbors(cur), DiagonalCost,
                                       destination)
             found == IF direct # {} THEN direct ELSE diagonal
             cost == IF direct # {} THEN StraightCost ELSE DiagonalCost
             queue == s1.queue \cup {<<p, d + cost>> : p \in found}
         IN  IF cur = destination \/ rd[cur]
             THEN [s1 EXCEPT !.status = "ok", !.path = roadBacktrack(s.cameFrom, cur)]
             ELSE [s1 EXCEPT
                     !.cameFrom = [p \in Tiles |-> IF p \in found THEN cur ELSE @[p]],
                     !.dist = [p \in Tiles |-> IF p \in found THEN d + cost ELSE @[p]],
                     !.queue = queue,
                     !.status = IF queue = {} THEN "fail" ELSE "run"] : e \in cheapest}

RECURSIVE roadSearch(_, _, _, _)
roadSearch(running, finished, rd, destination) ==
    IF running = {} THEN finished
    ELSE LET next == UNION {roadExpand(s, rd, destination) : s \in running}
         IN  roadSearch({s \in next : s.status = "run"},
                        finished \cup {s \in next : s.status # "run"}, rd, destination)

\* Every outcome of createRoad(source, destination).
createRoad(source, destination) ==
    LET rd == [road EXCEPT ![source] = FALSE]
        start == [closed |-> {}, queue |-> {<<source, 0>>},
                  cameFrom |-> [p \in Tiles |-> Invalid],
                  dist |-> [p \in Tiles |-> IF p = source THEN 0 ELSE InfDistance],
                  status |-> "run", path |-> <<>>]
    IN  {IF s.status = "ok"
         THEN [ok |-> TRUE,
               road |-> [p \in Tiles |-> rd[p] \/ p \in SeqRange(s.path)],
               info |-> [source |-> source, destination |-> destination, path |-> s.path]]
         ELSE [ok |-> FALSE, road |-> rd,
               info |-> [source |-> source, destination |-> destination, path |-> <<>>]] :
            s \in roadSearch({start}, {}, rd, destination)}

\* ------------------------------------------------------------- connectRoads
\* Faulty variant: the cross stays among the nodes to be taken.
remainingNodesKeepingCross(rest, cross, ok) == rest

\* The nodes still to be taken after a round: a cross that got its road is
\* not taken as a starting point any more.
remainingNodes(rest, cross, ok) == IF ok THEN rest \ {cross} ELSE rest

\* One round of the loop over the road nodes.
connectRoads ==
    /\ pc = "connectRoads"
    /\ LET copy == IF todo.i = 0 THEN roadNodes ELSE todo.copy
           processed == IF todo.i = 0 THEN {} ELSE todo.processed
       IN  IF copy = {}
           THEN /\ pc' = "done"
                /\ todo' = [todo EXCEPT !.i = 0, !.copy = {}, !.processed = {}]
                /\ UNCHANGED <<road, roads, last>>
           ELSE \E node \in copy :
                   LET rest == copy \ {node}
                       from == IF processed # {} THEN processed ELSE rest
                   IN  IF from = {}
                       THEN /\ pc' = "done"
                            /\ todo' = [todo EXCEPT !.i = 0, !.copy = {}, !.processed = {}]
                            /\ UNCHANGED <<road, roads, last>>
                       ELSE \E cross \in findClosestTile(from, node) :
                               \E r \in createRoad(node, cross) :
                                   /\ road' = r.road
                                   /\ roads' = IF r.ok THEN Append(roads, r.info) ELSE roads
                                   /\ todo' = [todo EXCEPT
                                        !.i = 1,
                                        !.copy = remainingNodes(rest, cross, r.ok),
                                        !.processed = IF r.ok
                                                      THEN processed \cup {cross, node}
                                                      ELSE processed \cup {node}]
                                   /\ last' = [NoAttempt EXCEPT
                                        !.op = "createRoad",
                                        !.result = IF r.ok /\ last.result # "Failed"
                                                   THEN "Success" ELSE "Failed"]
                                   /\ pc' = pc
    /\ UNCHANGED <<occ, ground, nod, zoneOf, tmpl, filters, pos, possibleTiles, freePaths,
                   roadNodes, objects, decorations>>

\* ------------------------------------------------------------ specification
Next ==
    \/ initTowns
    \/ connectZones
    \/ initTerrain
    \/ initFreeTiles
    \/ fractalize
    \/ placeCities
    \/ placeMerchants
    \/ placeMages
    \/ placeMercenaries
    \/ placeTrainers
    \/ placeMarkets
    \/ placeRuins
    \/ placeMines
    \/ createRequiredObjects
    \/ placeStacks
    \/ placeBags
    \/ createBorder
    \/ decorate
    \/ createObstacles
    \/ connectRoads

Spec == Init /\ [][Next]_vars

SpecProcess == InitProcess /\ [][Next]_vars

\* ------------------------------------ tryToPlaceObjectAndConnectToPath alone
\* The method called once for a one-tile element at any tile of a small zone
\* whose tiles are possible, free or blocked in every combination.
TryZone == [zone |-> Rect(1, 3, 1, 2), pos |-> <<1, 1>>, entries |-> {}]

InitTry ==
    \E zoneOcc \in [TryZone.zone -> {"Possible", "Free", "Blocked"}] :
        Begin([layout |-> TryZone, tmpl |-> EmptyTemplate],
              [k \in DecorationKinds |-> NoFilters],
              [p \in Tiles |-> IF p \in TryZone.zone THEN zoneOcc[p] ELSE "Possible"],
              {p \in TryZone.zone : zoneOcc[p] = "Possible"},
              "tryToPlace")

callTryToPlace ==
    /\ pc = "tryToPlace"
    /\ pc' = "tried"
    /\ \E position \in tileInfo :
          \E r \in tryToPlaceObjectAndConnectToPath(occ, possibleTiles, stackSize, position) :
              /\ last' = attempt(r, stackSize, position)
              /\ occ' = r.occ
              /\ possibleTiles' = r.possibleTiles
    /\ UNCHANGED <<ground, road, nod, zoneOf, tmpl, filters, pos, freePaths, roadNodes, roads,
                   objects, decorations, todo>>

SpecTry == InitTry /\ [][callTryToPlace]_vars

\* --------------------------------------------------- path carving alone
\* connectPath, connectWithCenter and crunchPath called once on a small zone
\* whose tiles are possible, free, blocked or used in every combination.
PathsZone == [zone |-> Rect(1, 3, 1, 2) \ {<<3, 2>>}, pos |-> <<1, 1>>, entries |-> {}]

InitPaths ==
    \E zoneOcc \in [PathsZone.zone -> {"Possible", "Free", "Blocked", "Used"}] :
        Begin([layout |-> PathsZone, tmpl |-> EmptyTemplate],
              [k \in DecorationKinds |-> NoFilters],
              [p \in Tiles |-> IF p \in PathsZone.zone THEN zoneOcc[p] ELSE "Possible"],
              {p \in PathsZone.zone : zoneOcc[p] = "Possible"},
              "paths")

callConnectPath ==
    /\ pc = "paths"
    /\ pc' = "called"
    /\ \E source \in tileInfo, onlyStraight \in BOOLEAN :
          \E r \in connectPath(occ, possibleTiles, source, onlyStraight) :
              /\ last' = [NoAttempt EXCEPT !.op = "connectPath", !.result = r.ok,
                                           !.before = occ, !.after = r.occ,
                                           !.position = source, !.straight = onlyStraight,
                                           !.possibleBefore = possibleTiles,
                                           !.trace = r.trace]
              /\ occ' = r.occ
              /\ possibleTiles' = r.possibleTiles
    /\ UNCHANGED <<ground, road, nod, zoneOf, tmpl, filters, pos, freePaths, roadNodes, roads,
                   objects, decorations, todo>>

callConnectWithCenter ==
    /\ pc = "paths"
    /\ pc' = "called"
    /\ \E position \in tileInfo, onlyStraight \in BOOLEAN, passThroughBlocked \in BOOLEAN :
          \E r \in connectWithCenter(occ, pos, position, onlyStraight, passThroughBlocked) :
              /\ last' = [NoAttempt EXCEPT !.op = "connectWithCenter", !.result = r.ok,
                                           !.before = occ, !.after = r.occ,
                                           !.position = position, !.target = pos,
                                           !.straight = onlyStraight,
                                           !.through = passThroughBlocked]
              /\ occ' = r.occ
    /\ UNCHANGED <<ground, road, nod, zoneOf, tmpl, filters, pos, possibleTiles, freePaths,
                   roadNodes, roads, objects, decorations, todo>>

\* The destination is a tile of the zone or the tile in its corner that
\* belongs to the neighbouring zone.
callCrunchPath ==
    /\ pc = "paths"
    /\ pc' = "called"
    /\ \E source \in tileInfo, destination \in tileInfo \cup {Add(pos, <<2, 1>>)},
          onlyStraight \in BOOLEAN, byRef \in BOOLEAN :
          LET r == crunchPath(occ, freePaths, source, destination, onlyStraight, byRef)
          IN  /\ last' = [NoAttempt EXCEPT !.op = "crunchPath", !.result = r.result,
                                           !.before = occ, !.after = r.occ,
                                           !.position = source, !.target = destination,
                                           !.straight = onlyStraight, !.byRef = byRef,
                                           !.trace = r.cleared]
              /\ occ' = r.occ
              /\ freePaths' = r.cleared
    /\ UNCHANGED <<ground, road, nod, zoneOf, tmpl, filters, pos, possibleTiles, roadNodes,
                   roads, objects, decorations, todo>>

NextPaths ==
    \/ callConnectPath
    \/ callConnectWithCenter
    \/ callCrunchPath

SpecPaths == InitPaths /\ [][NextPaths]_vars

\* ------------------------------------------------------------ loot composer
\* The item catalog: id, value and type of each item.
Items ==
    {[id |-> "potion", value |-> 1, type |-> "Potion"],
     [id |-> "gem", value |-> 2, type |-> "Valuable"],
     [id |-> "sword", value |-> 3, type |-> "Weapon"]}

emptyId == "empty"

NoValue == [min |-> 0, max |-> 0]

\* RandomValue::operator bool: the range is not zero.
hasValue(v) == v.min > 0 \/ v.max > 0

\* RandomGenerator::pickValue: any integer of the range.
pickValue(v) == v.min .. v.max

\* RandomValue::operator/: both ends divided, rounding down.
divideValue(v, n) == [min |-> v.min \div n, max |-> v.max \div n]

NoLoot == [requiredItems |-> <<>>, value |-> NoValue, itemTypes |-> {}, itemValue |-> NoValue]

\* createLoot, the required items: every outcome of the first loop.
RECURSIVE requiredLoot(_)
requiredLoot(requiredItems) ==
    IF requiredItems = <<>> THEN {<<>>}
    ELSE LET item == Head(requiredItems)
             rest == requiredLoot(Tail(requiredItems))
         IN  IF item.itemId = emptyId THEN rest
             ELSE UNION {{(IF amount > 0 THEN <<<<item.itemId, amount>>>> ELSE <<>>) \o r :
                             r \in rest} : amount \in pickValue(item.amount)}

\* Faulty variant: an item may cost more than the value that remains.
lootCandidatesOfAnyValue(loot, forMerchant, forbiddenItems, remainingValue) ==
    {info \in Items :
        /\ ~(forMerchant /\ info.type = "Valuable")
        /\ loot.itemTypes = {} \/ info.type \in loot.itemTypes
        /\ ~(/\ hasValue(loot.itemValue)
             /\ info.value < loot.itemValue.min \/ info.value > loot.itemValue.max)
        /\ info.id \notin forbiddenItems}

\* createLoot, the filters of one draw over a catalog: noWrongType,
\* noWrongValue and the forbidden items.
lootCandidatesIn(catalog, loot, forMerchant, forbiddenItems, remainingValue) ==
    {info \in catalog :
        /\ ~(forMerchant /\ info.type = "Valuable")
        /\ loot.itemTypes = {} \/ info.type \in loot.itemTypes
        /\ ~(/\ hasValue(loot.itemValue)
             /\ info.value < loot.itemValue.min \/ info.value > loot.itemValue.max)
        /\ info.value <= remainingValue
        /\ info.id \notin forbiddenItems}

\* createLoot, the filters of one draw: the items pickItem can return.
lootCandidates(loot, forMerchant, forbiddenItems, remainingValue) ==
    lootCandidatesIn(Items, loot, forMerchant, forbiddenItems, remainingValue)

\* createLoot, the random items: every outcome of the while loop.
RECURSIVE randomLoot(_, _, _, _, _)
randomLoot(loot, forMerchant, forbiddenItems, desiredValue, currentValue) ==
    IF currentValue > desiredValue THEN {<<>>}
    ELSE LET items == lootCandidates(loot, forMerchant, forbiddenItems,
                                     desiredValue - currentValue)
         IN  IF items = {} THEN {<<>>}
             ELSE UNION {{<<<<item.id, 1>>>> \o r :
                             r \in randomLoot(loot, forMerchant, forbiddenItems, desiredValue,
                                              currentValue + item.value)} : item \in items}

\* createLoot: every list of (item, amount) pairs it can return.
createLoot(loot, forMerchant, forbiddenItems) ==
    {r \o d : r \in requiredLoot(loot.requiredItems),
              d \in IF hasValue(loot.value)
                    THEN UNION {randomLoot(loot, forMerchant, forbiddenItems, desiredValue, 0) :
                                   desiredValue \in pickValue(loot.value)}
                    ELSE {<<>>}}

\* The items of a loot list, each repeated by its amount.
RECURSIVE lootItems(_)
lootItems(loot) ==
    IF loot = <<>> THEN <<>>
    ELSE [i \in 1 .. Head(loot)[2] |-> Head(loot)[1]] \o lootItems(Tail(loot))

\* ----------------------------------------------------------- stack composer
\* The unit catalog: leaders and soldiers with their value, size, attack reach,
\* subrace and leadership.
Units ==
    {[id |-> "lMelee", leader |-> TRUE, leadership |-> 1, value |-> 2, big |-> FALSE,
      reach |-> "Adjacent", support |-> FALSE, subrace |-> "Human"],
     [id |-> "lRanged", leader |-> TRUE, leadership |-> 2, value |-> 3, big |-> FALSE,
      reach |-> "Any", support |-> FALSE, subrace |-> "Human"],
     [id |-> "lSupport", leader |-> TRUE, leadership |-> 1, value |-> 3, big |-> FALSE,
      reach |-> "Adjacent", support |-> TRUE, subrace |-> "Elf"],
     [id |-> "lBig", leader |-> TRUE, leadership |-> 3, value |-> 3, big |-> TRUE,
      reach |-> "Adjacent", support |-> FALSE, subrace |-> "Elf"],
     [id |-> "sMelee", leader |-> FALSE, leadership |-> 0, value |-> 1, big |-> FALSE,
      reach |-> "Adjacent", support |-> FALSE, subrace |-> "Human"],
     [id |-> "sRanged", leader |-> FALSE, leadership |-> 0, value |-> 2, big |-> FALSE,
      reach |-> "Any", support |-> FALSE, subrace |-> "Human"],
     [id |-> "sBig", leader |-> FALSE, leadership |-> 0, value |-> 3, big |-> TRUE,
      reach |-> "Adjacent", support |-> FALSE, subrace |-> "Elf"],
     [id |-> "sGhost", leader |-> FALSE, leadership |-> 0, value |-> 2, big |-> FALSE,
      reach |-> "Adjacent", support |-> FALSE, subrace |-> "Undead"]}

getLeaders == {u \in Units : u.leader}

getSoldiers == {u \in Units : ~u.leader}

unitInfo(id) == CHOOSE u \in Units : u.id = id

getMinLeaderValue ==
    CHOOSE v \in {u.value : u \in getLeaders} : \A u \in getLeaders : v <= u.value

getMinSoldierValue ==
    CHOOSE v \in {u.value : u \in getSoldiers} : \A u \in getSoldiers : v <= u.value

isSupport(info) == info.support

\* The slots of a group, and the mark of a slot that holds nothing.
GroupSlots == 0 .. 5

NoUnit == "none"

\* constrainedSum: every split of total into n positive integers.
RECURSIVE constrainedSum(_, _)
constrainedSum(n, total) ==
    IF n = 1 THEN {<<total>>}
    ELSE UNION {{<<k>> \o s : s \in constrainedSum(n - 1, total - k)} :
                   k \in 1 .. (total - n + 1)}

\* The coefficients of the composer, in hundredths.
leaderTotalFails == 5

leaderMinValueCoeff == 65

leaderMinValueCoeffDecrease == 15

groupMinValueCoeff == 95

tightenMinValueCoeff == 100

slotCoeffDecrease == 5

totalFails == 200

MaxSoldiers == 5

AtLeastZero(c) == IF c < 0 THEN 0 ELSE c

\* pickStackLeader, its loop: the unit values taken for the leader.
RECURSIVE consumeValues(_, _, _, _)
consumeValues(leaderInfo, unitValues, i, unused) ==
    IF i > Len(unitValues)
    THEN [unused |-> unused, valuesConsumed |-> Len(unitValues)]
    ELSE LET u == unused + unitValues[i]
         IN  IF i = 1 /\ leaderInfo.big
             THEN consumeValues(leaderInfo, unitValues, i + 1, u)
             ELSE IF u > leaderInfo.value
             THEN [unused |-> u, valuesConsumed |-> i]
             ELSE consumeValues(leaderInfo, unitValues, i + 1, u)

\* pickStackLeader: a leader of the listed ids, whatever its value; the empty
\* set stands for nullptr.
pickStackLeader(unusedValue, unitValues, leaderIds) ==
    {LET c == consumeValues(leaderInfo, unitValues, 1, unusedValue)
     IN  [leader |-> leaderInfo,
          unusedValue |-> IF c.unused < leaderInfo.value THEN 0
                          ELSE c.unused - leaderInfo.value,
          valuesConsumed |-> c.valuesConsumed,
          path |-> "leaderIds"] : leaderInfo \in {u \in getLeaders : u.id \in leaderIds}}

\* Faulty variant: a leader may cost more than the value at hand.
leaderCandidatesOfAnyValue(value, minValueCoeff, canPlaceBig, allowedSubraces, forbiddenUnits) ==
    {info \in getLeaders :
        /\ allowedSubraces = {} \/ info.subrace \in allowedSubraces
        /\ canPlaceBig \/ ~info.big
        /\ info.id \notin forbiddenUnits}

\* createStackLeader, its filters: the leaders pickLeader can return.
leaderCandidates(value, minValueCoeff, canPlaceBig, allowedSubraces, forbiddenUnits) ==
    {info \in getLeaders :
        /\ allowedSubraces = {} \/ info.subrace \in allowedSubraces
        /\ canPlaceBig \/ ~info.big
        /\ ~(info.value * 100 < value * minValueCoeff \/ info.value > value)
        /\ info.id \notin forbiddenUnits}

\* createStackLeader, one sweep over the unit values from index i.
RECURSIVE leaderSweep(_, _, _, _, _, _)
leaderSweep(unitValues, i, unused, minValueCoeff, allowedSubraces, forbiddenUnits) ==
    IF i > Len(unitValues) THEN {}
    ELSE LET value == unitValues[i] + unused
             leaders == leaderCandidates(value, minValueCoeff, Len(unitValues) < 6,
                                         allowedSubraces, forbiddenUnits)
         IN  IF leaders # {}
             THEN {[leader |-> leaderInfo, unusedValue |-> value - leaderInfo.value,
                    valuesConsumed |-> i, path |-> "value"] : leaderInfo \in leaders}
             ELSE leaderSweep(unitValues, i + 1, value, minValueCoeff, allowedSubraces,
                              forbiddenUnits)

\* createStackLeader, after the sweeps: the weakest leader, with no value taken.
weakestLeader ==
    {[leader |-> leaderInfo, unusedValue |-> 0, valuesConsumed |-> 0, path |-> "weakest"] :
        leaderInfo \in {u \in getLeaders : u.value = getMinLeaderValue}}

\* createStackLeader, the while loop from the given number of failed sweeps.
RECURSIVE leaderSweeps(_, _, _, _, _, _)
leaderSweeps(unusedValue, unitValues, failedAttempts, minValueCoeff, subraces, forbidden) ==
    IF failedAttempts >= leaderTotalFails THEN weakestLeader
    ELSE LET r == leaderSweep(unitValues, 1, unusedValue, minValueCoeff, subraces, forbidden)
         IN  IF r # {} THEN r
             ELSE leaderSweeps(unusedValue, unitValues, failedAttempts + 1,
                               AtLeastZero(minValueCoeff - leaderMinValueCoeffDecrease),
                               subraces, forbidden)

createStackLeader(unusedValue, unitValues, allowedSubraces, forbiddenUnits) ==
    leaderSweeps(unusedValue, unitValues, 0, leaderMinValueCoeff, allowedSubraces,
                 forbiddenUnits)

\* Faulty variant: a big leader takes the front slot only.
leaderPlaceFrontOnly(leaderInfo) ==
    IF isSupport(leaderInfo) \/ (~leaderInfo.big /\ leaderInfo.reach # "Adjacent")
    THEN [leaderPosition |-> 3, taken |-> {3}]
    ELSE [leaderPosition |-> 2, taken |-> {2}]

\* createStack: the leader's position and the slots it takes from the group.
leaderPlace(leaderInfo) ==
    IF leaderInfo.big THEN [leaderPosition |-> 2, taken |-> {2, 3}]
    ELSE IF isSupport(leaderInfo) THEN [leaderPosition |-> 3, taken |-> {3}]
    ELSE IF leaderInfo.reach # "Adjacent" THEN [leaderPosition |-> 3, taken |-> {3}]
    ELSE [leaderPosition |-> 2, taken |-> {2}]

secondPosition(position) == IF position % 2 = 0 THEN position + 1 ELSE position - 1

\* createGroup and tightenGroup, their filters: the units pickUnit can return.
soldierCandidates(value, minValueCoeff, canPlaceBig, frontline, subraces, forbidden) ==
    {info \in getSoldiers :
        /\ subraces = {} \/ info.subrace \in subraces
        /\ canPlaceBig \/ ~info.big
        /\ \/ canPlaceBig
           \/ /\ ~(frontline /\ info.reach # "Adjacent")
              /\ ~(~frontline /\ info.reach = "Adjacent")
        /\ ~(info.value * 100 < value * minValueCoeff \/ info.value > value)
        /\ info.id \notin forbidden}

\* createGroup and tightenGroup: the picked unit takes its place in the group.
placeInGroup(st, position, canPlaceBig, info) ==
    LET frontline == position % 2 = 0
        second == secondPosition(position)
    IN  IF info.big
        THEN [st EXCEPT !.positions = @ \ {position, second},
                        !.soldiers = [@ EXCEPT ![position] = info.id, ![second] = info.id]]
        ELSE LET p == IF canPlaceBig /\ frontline /\ info.reach # "Adjacent" THEN second
                      ELSE IF canPlaceBig /\ ~frontline /\ info.reach = "Adjacent" THEN second
                      ELSE position
             IN  [st EXCEPT !.positions = @ \ {p},
                            !.soldiers = [@ EXCEPT ![p] = info.id]]

\* createGroupUnits: the positions at which a unit is created, from the given
\* position on (the second slot of a big unit is skipped).
RECURSIVE groupUnitsFrom(_, _)
groupUnitsFrom(groupUnits, position) ==
    IF position > 5 THEN {}
    ELSE IF groupUnits[position] = NoUnit THEN groupUnitsFrom(groupUnits, position + 1)
    ELSE {position} \cup groupUnitsFrom(groupUnits,
                                        IF unitInfo(groupUnits[position]).big
                                        THEN position + 2 ELSE position + 1)

\* Group::addLeader and Group::addUnit: the unit takes its slot, both slots of
\* the column if it is big; a taken slot refuses it.
addUnit(group, unit, position, big) ==
    LET slots == IF big THEN {position, position + 1} ELSE {position}
    IN  IF \E s \in slots : s \notin GroupSlots \/ group[s] # 0 THEN group
        ELSE [s \in GroupSlots |-> IF s \in slots THEN unit ELSE group[s]]

\* createGroupUnits: the soldiers join the group, numbered in slot order.
RECURSIVE createGroupUnits(_, _, _, _)
createGroupUnits(group, groupUnits, position, unit) ==
    IF position > 5 THEN group
    ELSE IF groupUnits[position] = NoUnit
    THEN createGroupUnits(group, groupUnits, position + 1, unit)
    ELSE LET big == unitInfo(groupUnits[position]).big
         IN  createGroupUnits(addUnit(group, unit, position, big), groupUnits,
                              IF big THEN position + 2 ELSE position + 1, unit + 1)

\* --------------------------------------------------- stack composer alone
MinStackValue == 2

MaxStackValue == 5

StackValues == {NoValue, [min |-> MinStackValue, max |-> MaxStackValue]}

StackLoot ==
    [requiredItems |-> <<[itemId |-> "gem", amount |-> [min |-> 1, max |-> 2]]>>,
     value |-> [min |-> 1, max |-> 2], itemTypes |-> {}, itemValue |-> NoValue]

StackInfos ==
    {[value |-> v, leaderIds |-> l, subraceTypes |-> s, loot |-> StackLoot] :
        v \in StackValues,
        l \in {{}, {"lBig", "lRanged"}},
        s \in {{}, {"Human"}, {"Undead"}}}

\* The locals of createStack.
NoComposer ==
    [strength |-> 0, unitValues |-> <<>>, leader |-> NoUnit, leaderPosition |-> 0,
     path |-> "none", unusedValue |-> 0, valuesConsumed |-> 0, positions |-> GroupSlots,
     soldiers |-> [s \in GroupSlots |-> NoUnit], soldierValues |-> <<>>, i |-> 0,
     minValueCoeff |-> 0, failedAttempts |-> 0]

\* A generator about to compose one stack from a template's stack information.
InitStack ==
    \E stackInfo \in StackInfos, forbiddenUnits \in {{}, {"sMelee"}} :
        /\ Begin([layout |-> PathsZone,
                  tmpl |-> [stackInfo |-> stackInfo, forbiddenUnits |-> forbiddenUnits,
                            forbiddenItems |-> {}]],
                 [k \in DecorationKinds |-> NoFilters], [p \in Tiles |-> "Possible"], {},
                 "createStack")

\* createStack up to the split of the rolled value into unit values.
rollStack ==
    /\ pc = "createStack"
    /\ IF ~hasValue(tmpl.stackInfo.value)
       THEN pc' = "done" /\ UNCHANGED todo
       ELSE \E strength \in pickValue(tmpl.stackInfo.value) :
                LET soldiersStrength == strength - getMinLeaderValue
                    maxUnitsPossible == Min(MaxSoldiers, soldiersStrength \div getMinSoldierValue)
                IN  \E soldiersTotal \in 0 .. maxUnitsPossible :
                        \E unitValues \in constrainedSum(soldiersTotal + 1, strength) :
                            /\ todo' = [NoComposer EXCEPT !.strength = strength,
                                                          !.unitValues = unitValues]
                            /\ pc' = "pickLeader"
    /\ UNCHANGED <<occ, ground, road, nod, zoneOf, tmpl, filters, pos, possibleTiles, freePaths,
                   roadNodes, roads, objects, decorations, last>>

\* createStack: the leader is picked, by id if ids are given and one is found,
\* by value otherwise, and takes its place in the group.
pickLeader ==
    /\ pc = "pickLeader"
    /\ LET info == tmpl.stackInfo
           byId == IF info.leaderIds # {}
                   THEN pickStackLeader(0, todo.unitValues, info.leaderIds) ELSE {}
           picks == IF byId # {} THEN byId
                    ELSE createStackLeader(0, todo.unitValues, info.subraceTypes,
                                           tmpl.forbiddenUnits)
       IN  \E r \in picks :
               LET place == leaderPlace(r.leader)
               IN  todo' = [todo EXCEPT
                              !.leader = r.leader.id,
                              !.leaderPosition = place.leaderPosition,
                              !.path = r.path,
                              !.unusedValue = r.unusedValue,
                              !.valuesConsumed = r.valuesConsumed,
                              !.positions = GroupSlots \ place.taken,
                              !.soldierValues =
                                  IF r.valuesConsumed < Len(todo.unitValues)
                                  THEN SubSeq(todo.unitValues, r.valuesConsumed + 1,
                                              Len(todo.unitValues))
                                  ELSE <<>>,
                              !.i = 1]
    /\ pc' = "createGroup"
    /\ UNCHANGED <<occ, ground, road, nod, zoneOf, tmpl, filters, pos, possibleTiles, freePaths,
                   roadNodes, roads, objects, decorations, last>>

\* createGroup: one round of its loop, or its end.
createGroup ==
    /\ pc = "createGroup"
    /\ IF todo.i <= Len(todo.soldierValues) /\ todo.positions # {}
       THEN /\ \E position \in todo.positions :
                   LET value == todo.soldierValues[todo.i] + todo.unusedValue
                       minValueCoeff == groupMinValueCoeff
                                        - Cardinality(todo.positions) * slotCoeffDecrease
                       frontline == position % 2 = 0
                       canPlaceBig == /\ secondPosition(position) \in todo.positions
                                      /\ Cardinality(todo.positions) > Len(todo.soldierValues)
                       units == soldierCandidates(value, minValueCoeff, canPlaceBig, frontline,
                                                  tmpl.stackInfo.subraceTypes,
                                                  tmpl.forbiddenUnits)
                   IN  IF units = {}
                       THEN todo' = [todo EXCEPT
                                       !.unusedValue = @ + todo.soldierValues[todo.i],
                                       !.i = @ + 1]
                       ELSE \E info \in units :
                                todo' = placeInGroup([todo EXCEPT
                                                        !.unusedValue = value - info.value,
                                                        !.i = @ + 1],
                                                     position, canPlaceBig, info)
            /\ pc' = pc
       ELSE /\ todo' = [todo EXCEPT
                          !.minValueCoeff = tightenMinValueCoeff
                                            - Cardinality(todo.positions) * slotCoeffDecrease,
                          !.failedAttempts = 0]
            /\ pc' = "tightenGroup"
    /\ UNCHANGED <<occ, ground, road, nod, zoneOf, tmpl, filters, pos, possibleTiles, freePaths,
                   roadNodes, roads, objects, decorations, last>>

\* tightenGroup: one round of its loop, or its end.
tightenGroup ==
    /\ pc = "tightenGroup"
    /\ IF /\ todo.failedAttempts < totalFails
          /\ todo.positions # {}
          /\ todo.unusedValue >= getMinSoldierValue
       THEN /\ \E position \in todo.positions :
                   LET value == todo.unusedValue
                       frontline == position % 2 = 0
                       canPlaceBig == secondPosition(position) \in todo.positions
                       units == soldierCandidates(value, todo.minValueCoeff, canPlaceBig,
                                                  frontline, tmpl.stackInfo.subraceTypes,
                                                  tmpl.forbiddenUnits)
                   IN  IF units = {}
                       THEN todo' = [todo EXCEPT
                                       !.minValueCoeff = AtLeastZero(@ - slotCoeffDecrease),
                                       !.failedAttempts = @ + 1]
                       ELSE \E info \in units :
                                LET st == placeInGroup([todo EXCEPT
                                                          !.unusedValue = value - info.value,
                                                          !.failedAttempts = 0],
                                                       position, canPlaceBig, info)
                                IN  todo' = [st EXCEPT
                                               !.minValueCoeff =
                                                   tightenMinValueCoeff
                                                   - Cardinality(st.positions) * slotCoeffDecrease]
            /\ pc' = pc
       ELSE /\ pc' = "finishStack"
            /\ UNCHANGED todo
    /\ UNCHANGED <<occ, ground, road, nod, zoneOf, tmpl, filters, pos, possibleTiles, freePaths,
                   roadNodes, roads, objects, decorations, last>>

\* The leadership the leader needs for the group: its own slots and one for
\* every slot a soldier takes.
leadershipRequired(leaderInfo, groupUnits) ==
    (IF leaderInfo.big THEN 2 ELSE 1)
    + Cardinality({s \in GroupSlots : groupUnits[s] # NoUnit})

\* createStack, its end: the stack gets its leader, its soldiers, the
\* leadership modifiers of the leader and its loot.
finishStack ==
    /\ pc = "finishStack"
    /\ LET leaderInfo == unitInfo(todo.leader)
           group == createGroupUnits(addUnit([s \in GroupSlots |-> 0], 1, todo.leaderPosition,
                                             leaderInfo.big),
                                     todo.soldiers, 0, 2)
           required == leadershipRequired(leaderInfo, todo.soldiers)
       IN  \E loot \in createLoot(tmpl.stackInfo.loot, FALSE, tmpl.forbiddenItems) :
               objects' = {[kind |-> "Stack", size |-> <<1, 1>>, pos |-> Invalid,
                            leader |-> 1, leaderImpl |-> todo.leader, group |-> group,
                            modifiers |-> AtLeastZero(required - leaderInfo.leadership),
                            inventory |-> lootItems(loot)]}
    /\ pc' = "done"
    /\ UNCHANGED <<occ, ground, road, nod, zoneOf, tmpl, filters, pos, possibleTiles, freePaths,
                   roadNodes, roads, decorations, todo, last>>

NextStack ==
    \/ rollStack
    \/ pickLeader
    \/ createGroup
    \/ tightenGroup
    \/ finishStack

SpecStack == InitStack /\ [][NextStack]_vars

\* ---------------------------------------------------- loot composer alone
MaxLootValue == 4

MaxGroupCount == 2

RequiredItemLists ==
    {<<>>,
     <<[itemId |-> "gem", amount |-> [min |-> 1, max |-> 2]]>>,
     <<[itemId |-> emptyId, amount |-> [min |-> 1, max |-> 1]],
       [itemId |-> "sword", amount |-> [min |-> 0, max |-> 1]]>>}

LootInfos ==
    {[requiredItems |-> r, value |-> v, itemTypes |-> t, itemValue |-> iv] :
        r \in RequiredItemLists,
        v \in {NoValue, [min |-> 1, max |-> MaxLootValue]},
        t \in {{}, {"Potion", "Valuable"}},
        iv \in {NoValue, [min |-> 2, max |-> 3]}}

\* The stack groups of a zone: count, value of the whole group and loot.
StackGroups ==
    {[count |-> n, value |-> v, loot |-> l] :
        n \in 1 .. MaxGroupCount,
        v \in {NoValue, [min |-> 1, max |-> 1], [min |-> 2, max |-> 3]},
        l \in LootInfos}

\* The locals of createLoot and of the loot part of placeStacks.
NoLooting ==
    [items |-> <<>>, desiredValue |-> 0, currentValue |-> 0, drawn |-> <<>>,
     stackItems |-> <<>>, requiredItems |-> <<>>, i |-> 0]

\* A generator about to create one loot, or to place one group of stacks.
InitLoot ==
    \E loot \in LootInfos, forMerchant \in BOOLEAN, group \in StackGroups,
       phase \in {"createLoot", "placeStacks"} :
        /\ phase = "createLoot" => group.count = 1 /\ group.value = NoValue /\ group.loot = loot
        /\ phase = "placeStacks" => loot = group.loot /\ ~forMerchant
        /\ Begin([layout |-> PathsZone,
                  tmpl |-> [loot |-> loot, forMerchant |-> forMerchant, group |-> group,
                            forbiddenItems |-> {}]],
                 [k \in DecorationKinds |-> NoFilters], [p \in Tiles |-> "Possible"], {}, phase)

\* createLoot up to its while loop: the required items and the rolled value.
startLoot ==
    /\ pc = "createLoot"
    /\ \E required \in requiredLoot(tmpl.loot.requiredItems) :
           IF hasValue(tmpl.loot.value)
           THEN \E desiredValue \in pickValue(tmpl.loot.value) :
                    /\ todo' = [NoLooting EXCEPT !.items = required,
                                                 !.desiredValue = desiredValue]
                    /\ pc' = "drawItems"
           ELSE /\ todo' = [NoLooting EXCEPT !.items = required]
                /\ pc' = "looted"
    /\ UNCHANGED <<occ, ground, road, nod, zoneOf, tmpl, filters, pos, possibleTiles, freePaths,
                   roadNodes, roads, objects, decorations, last>>

\* createLoot: one round of its while loop, or its end.
drawItem ==
    /\ pc = "drawItems"
    /\ LET items == lootCandidates(tmpl.loot, tmpl.forMerchant, tmpl.forbiddenItems,
                                   todo.desiredValue - todo.currentValue)
       IN  IF todo.currentValue <= todo.desiredValue /\ items # {}
           THEN /\ \E item \in items :
                       todo' = [todo EXCEPT !.currentValue = @ + item.value,
                                            !.items = Append(@, <<item.id, 1>>),
                                            !.drawn = Append(@, item.id)]
                /\ pc' = pc
           ELSE /\ pc' = "looted"
                /\ UNCHANGED todo
    /\ UNCHANGED <<occ, ground, road, nod, zoneOf, tmpl, filters, pos, possibleTiles, freePaths,
                   roadNodes, roads, objects, decorations, last>>

\* placeStacks, one group: its stacks are created, each with the group's value
\* split evenly; a stack without value is not created.
createGroupStacks ==
    /\ pc = "placeStacks"
    /\ objects' = IF hasValue(divideValue(tmpl.group.value, tmpl.group.count))
                  THEN {[kind |-> "Stack", size |-> <<1, 1>>, pos |-> Invalid,
                         index |-> i, inventory |-> <<>>] : i \in 1 .. tmpl.group.count}
                  ELSE {}
    /\ todo' = [NoLooting EXCEPT !.stackItems = [i \in 1 .. tmpl.group.count |-> <<>>],
                                 !.i = 1]
    /\ pc' = "stackLoot"
    /\ UNCHANGED <<occ, ground, road, nod, zoneOf, tmpl, filters, pos, possibleTiles, freePaths,
                   roadNodes, roads, decorations, last>>

\* placeStacks, one group: the loot of one stack, from the group's loot value
\* split evenly.
createStackLoot ==
    /\ pc = "stackLoot"
    /\ IF todo.i <= tmpl.group.count
       THEN /\ LET stackLoot == [NoLoot EXCEPT
                                   !.value = divideValue(tmpl.group.loot.value,
                                                         tmpl.group.count),
                                   !.itemTypes = tmpl.group.loot.itemTypes,
                                   !.itemValue = tmpl.group.loot.itemValue]
               IN  \E loot \in createLoot(stackLoot, FALSE, tmpl.forbiddenItems) :
                       todo' = [todo EXCEPT !.stackItems[todo.i] = lootItems(loot),
                                            !.i = @ + 1]
            /\ pc' = pc
       ELSE /\ pc' = "requiredLoot"
            /\ UNCHANGED todo
    /\ UNCHANGED <<occ, ground, road, nod, zoneOf, tmpl, filters, pos, possibleTiles, freePaths,
                   roadNodes, roads, objects, decorations, last>>

\* The items a stack gets from a list of items and the stack picked for each.
itemsFor(items, picks, stackIndex) ==
    LET RECURSIVE from(_)
        from(k) == IF k > Len(items) THEN <<>>
                   ELSE (IF picks[k] = stackIndex THEN <<items[k]>> ELSE <<>>) \o from(k + 1)
    IN  from(1)

\* placeStacks, one group: the required items are created and each goes to a
\* stack index picked at random.
placeRequiredItems ==
    /\ pc = "requiredLoot"
    /\ LET requiredLootInfo == [NoLoot EXCEPT !.requiredItems = tmpl.group.loot.requiredItems]
       IN  \E loot \in createLoot(requiredLootInfo, FALSE, tmpl.forbiddenItems) :
               LET requiredItems == lootItems(loot)
               IN  \E picks \in [1 .. Len(requiredItems) -> 1 .. tmpl.group.count] :
                       todo' = [todo EXCEPT
                                  !.requiredItems = requiredItems,
                                  !.stackItems =
                                      [i \in 1 .. tmpl.group.count |->
                                          todo.stackItems[i] \o itemsFor(requiredItems, picks, i)]]
    /\ pc' = "inventories"
    /\ UNCHANGED <<occ, ground, road, nod, zoneOf, tmpl, filters, pos, possibleTiles, freePaths,
                   roadNodes, roads, objects, decorations, last>>

\* placeStacks, one group: every created stack gets the items of its index.
fillInventories ==
    /\ pc = "inventories"
    /\ objects' = {[st EXCEPT !.inventory = todo.stackItems[st.index]] : st \in objects}
    /\ pc' = "done"
    /\ UNCHANGED <<occ, ground, road, nod, zoneOf, tmpl, filters, pos, possibleTiles, freePaths,
                   roadNodes, roads, decorations, todo, last>>

NextLoot ==
    \/ startLoot
    \/ drawItem
    \/ createGroupStacks
    \/ createStackLoot
    \/ placeRequiredItems
    \/ fillInventories

SpecLoot == InitLoot /\ [][NextLoot]_vars

\* ---------------------------------------------------------- template reader
MaxZoneTables == 2

MaxRelationTables == 2

StartTypes == {"PlayerStart", "AiStart"}

\* An optional table of the template that is not given.
NoTable == [given |-> FALSE, tables |-> <<>>]

\* std::clamp
clamp(v, lo, hi) == IF v < lo THEN lo ELSE IF v > hi THEN hi ELSE v

\* readContents, the zones: each table is stored under its id, a later table
\* of the same id replaces the earlier one.
RECURSIVE readZones(_, _)
readZones(zones, tables) ==
    IF tables = <<>> THEN zones
    ELSE LET options == Head(tables)
         IN  readZones([id \in DOMAIN zones \cup {options.id} |->
                           IF id = options.id
                           THEN [type |-> options.type, connections |-> <<>>]
                           ELSE zones[id]],
                       Tail(tables))

\* readContents: every connection is added to the zones at both its ends.
RECURSIVE populateConnections(_, _)
populateConnections(zones, connections) ==
    IF connections = <<>> THEN zones
    ELSE LET connection == Head(connections)
             from == [zones EXCEPT ![connection.zoneFrom].connections =
                                      Append(@, connection.zoneTo)]
         IN  populateConnections([from EXCEPT ![connection.zoneTo].connections =
                                                Append(@, connection.zoneFrom)],
                                 Tail(connections))

\* Faulty variant: allies may be always at war.
readDiplomacyRelationAllowingWar(table) ==
    [raised |-> table.permanentAlliance /\ ~table.alliance, relation |-> table]

\* readDiplomacyRelation: the relation of the table, or TemplateException.
readDiplomacyRelation(table) ==
    IF table.alliance /\ table.alwaysAtWar THEN [raised |-> TRUE, relation |-> table]
    ELSE IF table.permanentAlliance /\ ~table.alliance
    THEN [raised |-> TRUE, relation |-> table]
    ELSE [raised |-> FALSE, relation |-> table]

\* Relation::operator==, either of all fields or of the two races in any order.
relationsEqual(a, b, equality) ==
    IF equality = "fields" THEN a = b
    ELSE {a.raceA, a.raceB} = {b.raceA, b.raceB}

\* readDiplomacy, its first loop from table i on: the relations read, up to
\* the first one that raises.
RECURSIVE readRelations(_, _, _)
readRelations(relations, tables, i) ==
    IF i > Len(tables) THEN [raised |-> FALSE, relations |-> relations]
    ELSE LET r == readDiplomacyRelation(tables[i])
         IN  IF r.raised THEN [raised |-> TRUE, relations |-> relations]
             ELSE readRelations(Append(relations, r.relation), tables, i + 1)

\* readDiplomacy: the relations of the tables, or TemplateException.
readDiplomacy(tables, equality) ==
    LET r == readRelations(<<>>, tables, 1)
    IN  IF r.raised THEN r
        ELSE [raised |-> \E i \in 1 .. Len(r.relations) :
                             \E j \in (i + 1) .. Len(r.relations) :
                                 relationsEqual(r.relations[i], r.relations[j], equality),
              relations |-> r.relations]

\* readContents up to the diplomacy: the template as it is left, and whether
\* TemplateException was raised.
readContents(mapTemplate, contentsTable, equality) ==
    LET zones == readZones(mapTemplate.contents.zones, contentsTable.zones)
        maxPlayers == clamp(contentsTable.maxPlayers, 0, 4)
        settings == IF maxPlayers > 0
                    THEN [mapTemplate.settings EXCEPT !.maxPlayers = maxPlayers]
                    ELSE mapTemplate.settings
        startingZones == Cardinality({id \in DOMAIN zones : zones[id].type \in StartTypes})
        t1 == [settings |-> settings,
               contents |-> [mapTemplate.contents EXCEPT !.zones = zones]]
    IN  IF settings.maxPlayers < startingZones THEN [raised |-> TRUE, template |-> t1]
        ELSE LET t2 == [t1 EXCEPT
                          !.contents.connections = contentsTable.connections,
                          !.contents.zones = populateConnections(zones,
                                                                 contentsTable.connections)]
             IN  IF ~contentsTable.diplomacy.given THEN [raised |-> FALSE, template |-> t2]
                 ELSE LET d == readDiplomacy(contentsTable.diplomacy.tables, equality)
                      IN  [raised |-> d.raised,
                           template |-> [t2 EXCEPT !.contents.diplomacy = d.relations]]

\* The tables a template's getContents can return.
ZoneTables ==
    UNION {[1 .. n -> [id : {0, 1}, type : {"PlayerStart", "AiStart", "Treasure"}]] :
              n \in 0 .. MaxZoneTables}

RelationTables ==
    [raceA : {"Human", "Elf"}, raceB : {"Human", "Elf"} , relation : {0},
     alliance : BOOLEAN, alwaysAtWar : BOOLEAN, permanentAlliance : BOOLEAN]

DiplomacyTables ==
    {NoTable}
    \cup {[given |-> TRUE, tables |-> t] :
             t \in UNION {[1 .. n -> {r \in RelationTables : r.raceA # r.raceB}] :
                             n \in 0 .. MaxRelationTables}}

\* One connection between the first and the last zone of the tables.
connectionsOf(zones) ==
    IF zones = <<>> THEN <<>>
    ELSE <<[zoneFrom |-> zones[1].id, zoneTo |-> zones[Len(zones)].id]>>

\* The template before its contents are read: the settings are read, the
\* contents are empty.
NoContents == [zones |-> <<>>, connections |-> <<>>, diplomacy |-> <<>>]

\* A reader about to read the contents of a template: no map is generated yet.
InitReader ==
    \E zones \in ZoneTables, diplomacy \in DiplomacyTables, maxPlayers \in {0, 2},
       settingsMaxPlayers \in {1}, equality \in {"fields", "races"} :
        /\ tmpl = [settings |-> [maxPlayers |-> settingsMaxPlayers], contents |-> NoContents]
        /\ todo = [zones |-> zones, maxPlayers |-> maxPlayers,
                   connections |-> connectionsOf(zones), diplomacy |-> diplomacy,
                   equality |-> equality]
        /\ pc = "readContents"
        /\ last = NoAttempt
        /\ zoneOf = [p \in Tiles |-> OtherZoneId]
        /\ pos = Invalid
        /\ filters = [k \in DecorationKinds |-> NoFilters]
        /\ occ = [p \in Tiles |-> "Possible"]
        /\ ground = [p \in Tiles |-> "Plain"]
        /\ road = [p \in Tiles |-> FALSE]
        /\ nod = [p \in Tiles |-> InfDistance]
        /\ possibleTiles = {}
        /\ freePaths = {}
        /\ roadNodes = {}
        /\ roads = <<>>
        /\ objects = {}
        /\ decorations = <<>>

callReadContents ==
    /\ pc = "readContents"
    /\ LET r == readContents(tmpl, todo, todo.equality)
       IN  /\ tmpl' = r.template
           /\ last' = [NoAttempt EXCEPT
                         !.op = "readContents",
                         !.result = IF r.raised THEN "TemplateException" ELSE "returned"]
    /\ pc' = "done"
    /\ UNCHANGED <<occ, ground, road, nod, zoneOf, filters, pos, possibleTiles, freePaths,
                   roadNodes, roads, objects, decorations, todo>>

NextReader == callReadContents

SpecReader == InitReader /\ [][NextReader]_vars

\* --------------------------------------------------- crunchPath step by step
\* crunchPath run one loop round at a time on the small zone: todo holds the
\* locals of the call, occ and freePaths are changed in place.
InitCrunch ==
    \E zoneOcc \in [PathsZone.zone -> {"Possible", "Free", "Blocked"}] :
        /\ occ = [p \in Tiles |-> IF p \in PathsZone.zone THEN zoneOcc[p] ELSE "Possible"]
        /\ ground = [p \in Tiles |-> "Land"]
        /\ road = [p \in Tiles |-> FALSE]
        /\ nod = [p \in Tiles |-> InfDistance]
        /\ zoneOf = [p \in Tiles |-> IF p \in PathsZone.zone THEN ZoneId ELSE OtherZoneId]
        /\ tmpl = EmptyTemplate
        /\ filters = [k \in DecorationKinds |-> NoFilters]
        /\ pos = PathsZone.pos
        /\ possibleTiles = {p \in PathsZone.zone : zoneOcc[p] = "Possible"}
        /\ freePaths = {}
        /\ roadNodes = {}
        /\ roads = {}
        /\ objects = {}
        /\ decorations = <<>>
        /\ todo = [cur |-> Invalid, distance |-> 0, result |-> FALSE, end |-> FALSE,
                   i |-> 0, base |-> Invalid, lastDistance |-> 0, rounds |-> 0, atTop |-> {}]
        /\ pc = "crunchPath"
        /\ last = NoAttempt

\* The locals of the running call together with the map it changes.
crunchState ==
    [cur |-> todo.cur, distance |-> todo.distance, occ |-> occ, cleared |-> freePaths,
     result |-> todo.result, end |-> todo.end]

crunchDirs == IF last.straight THEN DirectDirs ELSE AllDirs

\* Entry of crunchPath: the locals are initialised.
crunchEnter ==
    /\ pc = "crunchPath"
    /\ pc' = "while"
    /\ \E source \in tileInfo, destination \in tileInfo \cup {Add(pos, <<2, 1>>)},
          onlyStraight \in BOOLEAN, byRef \in BOOLEAN :
          /\ last' = [NoAttempt EXCEPT !.op = "crunchPath", !.before = occ,
                                       !.position = source, !.target = destination,
                                       !.straight = onlyStraight, !.byRef = byRef]
          /\ todo' = [cur |-> source, distance |-> distanceSquared(source, destination),
                      result |-> FALSE, end |-> FALSE, i |-> 0, base |-> source,
                      lastDistance |-> 0, rounds |-> 0, atTop |-> {}]
    /\ UNCHANGED <<occ, ground, road, nod, zoneOf, tmpl, filters, pos, possibleTiles,
                   freePaths, roadNodes, roads, objects, decorations>>

\* Top of a loop round that goes on: lastDistance is taken and the walk over
\* the neighbours of the current tile begins.
crunchWhile ==
    /\ pc = "while"
    /\ ~todo.end
    /\ todo.cur # last.target
    /\ pc' = "neighbors"
    /\ todo' = [todo EXCEPT !.i = 1, !.base = todo.cur, !.lastDistance = todo.distance,
                            !.rounds = @ + 1, !.atTop = {p \in tileInfo : isPossible(occ, p)}]
    /\ UNCHANGED <<occ, ground, road, nod, zoneOf, tmpl, filters, pos, possibleTiles,
                   freePaths, roadNodes, roads, objects, decorations, last>>

\* The processNeighbors lambda is called on the next neighbour.
crunchNeighbor ==
    /\ pc = "neighbors"
    /\ LET position == Add(IF last.byRef THEN todo.cur ELSE todo.base, crunchDirs[todo.i])
       IN  \E r \in {IF isInTheMap(position)
                     THEN processNeighbors(crunchState, position, last.target)
                     ELSE crunchState} :
              /\ occ' = r.occ
              /\ freePaths' = r.cleared
              /\ todo' = [todo EXCEPT !.cur = r.cur, !.distance = r.distance,
                                      !.result = r.result, !.end = r.end, !.i = @ + 1]
    /\ pc' = IF todo.i = Len(crunchDirs) THEN "fallback" ELSE "neighbors"
    /\ UNCHANGED <<ground, road, nod, zoneOf, tmpl, filters, pos, possibleTiles, roadNodes,
                   roads, objects, decorations, last>>

\* The rest of the round: the fallback step when the walk did not advance,
\* and the loop is left when the fallback found nothing either.
crunchFallback ==
    /\ pc = "fallback"
    /\ LET advanced == todo.result \/ todo.distance < todo.lastDistance
           another == IF advanced THEN Invalid
                      ELSE crunchAnotherPosition(occ, todo.cur, crunchDirs, last.target,
                                                 todo.distance)
       IN  IF another # Invalid
           THEN /\ occ' = setOccupied(occ, {another}, "Free")
                /\ freePaths' = freePaths \cup {another}
                /\ todo' = [todo EXCEPT !.cur = another]
                /\ pc' = "while"
           ELSE /\ UNCHANGED <<occ, freePaths, todo>>
                /\ pc' = IF advanced THEN "while" ELSE "break"
    /\ UNCHANGED <<ground, road, nod, zoneOf, tmpl, filters, pos, possibleTiles, roadNodes,
                   roads, objects, decorations, last>>

\* The loop is left and the result returned.
crunchReturn ==
    /\ \/ pc = "break"
       \/ pc = "while" /\ (todo.end \/ todo.cur = last.target)
    /\ pc' = "returned"
    /\ todo' = [todo EXCEPT !.result = @ \/ (pc = "while" /\ todo.cur = last.target)]
    /\ last' = [last EXCEPT !.after = occ, !.trace = freePaths]
    /\ UNCHANGED <<occ, ground, road, nod, zoneOf, tmpl, filters, pos, possibleTiles,
                   freePaths, roadNodes, roads, objects, decorations>>

NextCrunch ==
    \/ crunchEnter
    \/ crunchWhile
    \/ crunchNeighbor
    \/ crunchFallback
    \/ crunchReturn

\* The thread that called crunchPath keeps running it.
SpecCrunch == InitCrunch /\ [][NextCrunch]_vars /\ WF_vars(NextCrunch)

\* ------------------------------------------------- findPlaceForObject alone
\* findPlaceForObject called once on a small zone that reaches the map border,
\* in every occupancy, with the distances left by no object or by one.
FindZone == Rect(0, 2, 1, 2) \cup {<<2, 3>>}

FindSizes == {<<1, 1>>, <<2, 2>>}

FindMinDistances == {1, 2, 4}

InitFind ==
    \E zoneOcc \in [FindZone -> {"Possible", "Free", "Blocked"}],
       object \in {Invalid, <<1, 1>>, <<0, 2>>} :
        /\ occ = [p \in Tiles |-> IF p \in FindZone THEN zoneOcc[p] ELSE "Possible"]
        /\ ground = [p \in Tiles |-> "Land"]
        /\ road = [p \in Tiles |-> FALSE]
        /\ nod = [p \in Tiles |-> IF object = Invalid THEN InfDistance
                                  ELSE distanceSquared(object, p)]
        /\ zoneOf = [p \in Tiles |-> IF p \in FindZone THEN ZoneId ELSE OtherZoneId]
        /\ tmpl = EmptyTemplate
        /\ filters = [k \in DecorationKinds |-> NoFilters]
        /\ pos = <<1, 1>>
        /\ possibleTiles = {p \in FindZone : zoneOcc[p] = "Possible"}
        /\ freePaths = {}
        /\ roadNodes = {}
        /\ roads = {}
        /\ objects = {}
        /\ decorations = <<>>
        /\ todo = [area |-> {}, size |-> <<0, 0>>, minDistance |-> 0,
                   findAccessible |-> FALSE, result |-> FALSE, position |-> Invalid]
        /\ pc = "findPlace"
        /\ last = NoAttempt

\* One call: the map is only read, position is written on success.
callFindPlaceForObject ==
    /\ pc = "findPlace"
    /\ pc' = "found"
    /\ \E area \in {tileInfo, tileInfo \ {<<1, 1>>, <<2, 1>>}}, size \in FindSizes,
          minDistance \in FindMinDistances, findAccessible \in BOOLEAN :
          LET found == findPlaceForObject(occ, nod, area, size, minDistance, findAccessible)
              args == [area |-> area, size |-> size, minDistance |-> minDistance,
                       findAccessible |-> findAccessible]
          IN  \/ /\ found = {}
                 /\ todo' = args @@ [result |-> FALSE, position |-> Invalid]
              \/ \E position \in found :
                    todo' = args @@ [result |-> TRUE, position |-> position]
    /\ last' = [NoAttempt EXCEPT !.op = "findPlaceForObject", !.before = occ]
    /\ UNCHANGED <<occ, ground, road, nod, zoneOf, tmpl, filters, pos, possibleTiles,
                   freePaths, roadNodes, roads, objects, decorations>>

SpecFind == InitFind /\ [][callFindPlaceForObject]_vars

\* ------------------------------------------- placement loops step by step
\* The loops that place close objects, stacks and bags, run one call at a time
\* on a small zone with a tile that hangs on it by a corner; some of its
\* tiles are possible, free or blocked in every combination.  todo holds the locals of the running loop: loop names it,
\* position and size are the element tried, accessible the tile the path
\* starts from, before the occupancy the blueprint saved.
RetryZone ==
    [zone |-> Rect(1, 3, 1, 3) \cup {<<2, 4>>, <<4, 0>>}, pos |-> <<2, 2>>, entries |-> {}]

RetryVaried == {<<2, 2>>, <<3, 3>>, <<2, 4>>, <<4, 0>>}

RetryTemplates ==
    {[EmptyTemplate EXCEPT !.mines = [close |-> t[1], required |-> 0],
                           !.stacks = IF t[2] = 0 THEN <<>>
                                      ELSE <<[count |-> t[2], value |-> TRUE]>>,
                           !.bags = t[3]] :
        t \in {<<1, 0, 1>>, <<0, 2, 0>>, <<0, 1, 1>>}}

NoRetry ==
    [i |-> 0, positions |-> {}, close |-> 0, attempt |-> FALSE, tiles |-> {}, loop |-> "none",
     position |-> Invalid, size |-> <<0, 0>>, accessible |-> Invalid, before |-> <<>>]

InitRetry ==
    \E t \in RetryTemplates, zoneOcc \in [RetryVaried -> {"Possible", "Free", "Blocked"}] :
        /\ occ = [p \in Tiles |-> IF p \in RetryVaried THEN zoneOcc[p] ELSE "Possible"]
        /\ ground = [p \in Tiles |-> "Plain"]
        /\ road = [p \in Tiles |-> FALSE]
        /\ nod = [p \in Tiles |-> InfDistance]
        /\ zoneOf = [p \in Tiles |-> IF p \in RetryZone.zone THEN ZoneId ELSE OtherZoneId]
        /\ tmpl = t
        /\ filters = [k \in DecorationKinds |-> NoFilters]
        /\ pos = RetryZone.pos
        /\ possibleTiles = {p \in RetryZone.zone : p \in RetryVaried => zoneOcc[p] = "Possible"}
        /\ freePaths = {}
        /\ roadNodes = {}
        /\ roads = <<>>
        /\ objects = {}
        /\ decorations = <<>>
        /\ todo = [NoRetry EXCEPT !.close = t.mines.close]
        /\ pc = "createRequiredObjects"
        /\ last = NoAttempt

\* Close objects, top of while (!finished && attempt): the next object is
\* taken, or the tiles it may stand on are collected.
retryCloseWhile ==
    /\ pc = "createRequiredObjects"
    /\ IF todo.close = 0
       THEN /\ pc' = "placeStacks"
            /\ todo' = [todo EXCEPT !.i = 0]
       ELSE IF closeObjectTiles = {}
       THEN /\ pc' = "LackOfSpace"
            /\ UNCHANGED todo
       ELSE /\ pc' = "closeFor"
            /\ todo' = [todo EXCEPT !.attempt = FALSE, !.tiles = closeObjectTiles]
    /\ UNCHANGED <<occ, ground, road, nod, zoneOf, tmpl, filters, pos, possibleTiles,
                   freePaths, roadNodes, roads, objects, decorations, last>>

\* Close objects, for (tile : tiles): the tiles come in the order of a
\* floating-point comparator, so any of them can be next.
retryCloseFor ==
    /\ pc = "closeFor"
    /\ IF todo.tiles = {}
       THEN /\ pc' = IF todo.attempt THEN "createRequiredObjects" ELSE "LackOfSpace"
            /\ UNCHANGED todo
       ELSE \E tile \in todo.tiles :
               IF ~areAllTilesAvailable(occ, crystalArea, tile)
               THEN /\ pc' = pc
                    /\ todo' = [todo EXCEPT !.tiles = @ \ {tile}]
               ELSE /\ pc' = "tryToPlace"
                    /\ todo' = [todo EXCEPT !.tiles = @ \ {tile}, !.attempt = TRUE,
                                            !.loop = "createRequiredObjects",
                                            !.size = crystalSize,
                                            !.position = Add(tile, <<CrystalAreaSize \div 2,
                                                                     CrystalAreaSize \div 2>>)]
    /\ UNCHANGED <<occ, ground, road, nod, zoneOf, tmpl, filters, pos, possibleTiles,
                   freePaths, roadNodes, roads, objects, decorations, last>>

\* Stacks and bags, top of the for loop: the next element is taken, or the
\* loop is over; after the stack loop the stacks are put on their places.
retryFor ==
    /\ pc \in {"placeStacks", "placeBags"}
    /\ IF todo.i < (IF pc = "placeStacks" THEN stacksTotal ELSE tmpl.bags)
       THEN /\ pc' = "findPlace"
            /\ todo' = [todo EXCEPT !.loop = pc, !.size = stackSize]
            /\ UNCHANGED <<occ, nod, objects>>
       ELSE IF pc = "placeStacks"
       THEN \E used \in SUBSET todo.positions :
               /\ Cardinality(used) = stacksCreated
               /\ \E st \in {placeStacksAt(curState, possibleTiles, used)} :
                     /\ occ' = st.occ /\ nod' = st.nod /\ objects' = st.objects
               /\ pc' = "placeBags"
               /\ todo' = [todo EXCEPT !.i = 0, !.positions = {}]
       ELSE /\ pc' = "createBorder"
            /\ UNCHANGED <<occ, nod, objects, todo>>
    /\ UNCHANGED <<ground, road, zoneOf, tmpl, filters, pos, possibleTiles, freePaths,
                   roadNodes, roads, decorations, last>>

\* Stacks and bags, top of while (true): findPlaceForObject or the throw.
retryFindPlace ==
    /\ pc = "findPlace"
    /\ \E places \in {findPlaceForObject(occ, nod, tileInfo, todo.size,
                                         IF todo.loop = "placeStacks" THEN StackMinDistance
                                         ELSE StackSize * 2, TRUE)} :
          IF places = {}
          THEN /\ pc' = "LackOfSpace"
               /\ UNCHANGED todo
          ELSE \E position \in places :
                  /\ pc' = "tryToPlace"
                  /\ todo' = [todo EXCEPT !.position = position]
    /\ UNCHANGED <<occ, ground, road, nod, zoneOf, tmpl, filters, pos, possibleTiles,
                   freePaths, roadNodes, roads, objects, decorations, last>>

\* Where a loop goes on after a try that failed.
retryAfterFailure == IF todo.loop = "createRequiredObjects" THEN "closeFor" ELSE "findPlace"

\* tryToPlaceObjectAndConnectToPath up to the blueprint: CannotFit is
\* returned, or the footprint is marked and the path search is next.
retryTryToPlace ==
    /\ pc = "tryToPlace"
    /\ IF \/ getAccessibleTiles(occ, todo.size, todo.position) = {}
          \/ getAccessibleOffset(occ, todo.size, todo.position) = Invalid
       THEN /\ pc' = retryAfterFailure
            /\ last' = [NoAttempt EXCEPT !.op = "tryToPlace", !.result = "CannotFit",
                                         !.before = occ, !.after = occ, !.size = todo.size,
                                         !.position = todo.position]
            /\ UNCHANGED <<occ, todo>>
       ELSE /\ pc' = "connectPath"
            /\ occ' = blueprintInstall(occ, todo.position, todo.size)
            /\ todo' = [todo EXCEPT !.before = occ,
                                    !.accessible = getAccessibleOffset(occ, todo.size,
                                                                       todo.position)]
            /\ UNCHANGED last
    /\ UNCHANGED <<ground, road, nod, zoneOf, tmpl, filters, pos, possibleTiles, freePaths,
                   roadNodes, roads, objects, decorations>>

\* The rest of tryToPlaceObjectAndConnectToPath: the path search, the
\* blueprint dropped, and on success the footprint blocked.  SealedOff sends a
\* close object back to the top of its while loop.
retryConnectPath ==
    /\ pc = "connectPath"
    /\ \E r \in connectPath(occ, possibleTiles, todo.accessible, TRUE) :
          \E released \in {blueprintRelease(todo.before, r.occ, todo.position, todo.size)} :
              /\ possibleTiles' = r.possibleTiles
              /\ occ' = IF r.ok
                        THEN setOccupied(released,
                                         ({getEntrance(todo.size, todo.position)}
                                            \cup getBlockedPositions(todo.size, todo.position))
                                           \cap Tiles, "Blocked")
                        ELSE released
              /\ last' = [NoAttempt EXCEPT !.op = "tryToPlace",
                                           !.result = IF r.ok THEN "Success" ELSE "SealedOff",
                                           !.before = todo.before, !.after = occ',
                                           !.size = todo.size, !.position = todo.position,
                                           !.sealed = IF r.ok THEN {}
                                                      ELSE {p \in r.closed :
                                                               isPossible(todo.before, p)}]
              /\ pc' = IF r.ok THEN "Success"
                       ELSE IF todo.loop = "createRequiredObjects"
                       THEN "createRequiredObjects" ELSE "findPlace"
    /\ UNCHANGED <<ground, road, nod, zoneOf, tmpl, filters, pos, freePaths, roadNodes, roads,
                   objects, decorations, todo>>

\* What each loop does with a place that was taken.
retrySuccess ==
    /\ pc = "Success"
    /\ pc' = todo.loop
    /\ \/ /\ todo.loop = "createRequiredObjects"
          /\ \E st \in {placeObject(curState, possibleTiles, "Crystal", crystalSize,
                                    todo.position, TRUE)} :
                /\ occ' = st.occ /\ nod' = st.nod /\ objects' = st.objects
          /\ decorations' = Append(decorations,
                                   decoration("Crystal", crystalSize, todo.position, 0))
          /\ todo' = [todo EXCEPT !.close = @ - 1]
       \/ /\ todo.loop = "placeStacks"
          /\ nod' = updateDistances(nod, possibleTiles, todo.position)
          /\ todo' = [todo EXCEPT !.i = @ + 1, !.positions = @ \cup {todo.position}]
          /\ UNCHANGED <<occ, objects, decorations>>
       \/ /\ todo.loop = "placeBags"
          /\ \E st \in {placeObject(curState, possibleTiles, "Bag", stackSize,
                                    todo.position, TRUE)} :
                /\ occ' = st.occ /\ nod' = st.nod /\ objects' = st.objects
          /\ todo' = [todo EXCEPT !.i = @ + 1]
          /\ UNCHANGED decorations
    /\ UNCHANGED <<ground, road, zoneOf, tmpl, filters, pos, possibleTiles, freePaths,
                   roadNodes, roads, last>>

NextRetry ==
    \/ retryCloseWhile
    \/ retryCloseFor
    \/ retryFor
    \/ retryFindPlace
    \/ retryTryToPlace
    \/ retryConnectPath
    \/ retrySuccess

\* The thread filling the zone keeps running.
SpecRetry == InitRetry /\ [][NextRetry]_vars /\ WF_vars(NextRetry)


\* --------------------------------------------------- required objects alone
\* createRequiredObjects entered on the small zone of the placement loops, in
\* every occupancy of its varied tiles, with one or two required crystals and
\* at most one close crystal.
RequiredMines == {[close |-> c, required |-> r] : c \in {0, 1}, r \in {1, 2}}

InitRequired ==
    \E m \in RequiredMines, zoneOcc \in [RetryVaried -> {"Possible", "Free", "Blocked"}] :
        /\ occ = [p \in Tiles |-> IF p \in RetryVaried THEN zoneOcc[p] ELSE "Possible"]
        /\ ground = [p \in Tiles |-> "Plain"]
        /\ road = [p \in Tiles |-> FALSE]
        /\ nod = [p \in Tiles |-> InfDistance]
        /\ zoneOf = [p \in Tiles |-> IF p \in RetryZone.zone THEN ZoneId ELSE OtherZoneId]
        /\ tmpl = [EmptyTemplate EXCEPT !.mines = m]
        /\ filters = [k \in DecorationKinds |-> NoFilters]
        /\ pos = RetryZone.pos
        /\ possibleTiles = {p \in RetryZone.zone : p \in RetryVaried => zoneOcc[p] = "Possible"}
        /\ freePaths = {}
        /\ roadNodes = {}
        /\ roads = <<>>
        /\ objects = {}
        /\ decorations = <<>>
        /\ todo = [NoTodo EXCEPT !.required = m.required, !.close = m.close]
        /\ pc = "createRequiredObjects"
        /\ last = NoAttempt

SpecRequired == InitRequired /\ [][createRequiredObjects]_vars


\* ---------------------------------------------------------- fractalize alone
\* fractalize entered on a zone with a room and a long corridor, or on a row
\* with a far tile that hangs on it by a corner; some tiles are passages
\* already, the others possible.  The tile at the zone's position is free, as
\* initFreeTiles leaves it.
FractalZones ==
    {[zone |-> Rect(0, 9, 0, 0) \cup Rect(0, 3, 1, 6), pos |-> <<0, 0>>, entries |-> {}],
     [zone |-> Rect(0, 8, 0, 0) \cup {<<9, 1>>}, pos |-> <<0, 0>>, entries |-> {}]}

FractalVaried == {<<1, 0>>, <<4, 0>>, <<8, 0>>, <<2, 3>>, <<0, 6>>}

InitFractal ==
    \E z \in FractalZones, free \in SUBSET FractalVaried, type \in {"Treasure", "Junction"} :
        /\ occ = [p \in Tiles |-> IF p \in z.zone /\ (p = z.pos \/ p \in free)
                                  THEN "Free" ELSE "Possible"]
        /\ ground = [p \in Tiles |-> "Plain"]
        /\ road = [p \in Tiles |-> FALSE]
        /\ nod = [p \in Tiles |-> InfDistance]
        /\ zoneOf = [p \in Tiles |-> IF p \in z.zone THEN ZoneId ELSE OtherZoneId]
        /\ tmpl = [EmptyTemplate EXCEPT !.type = type]
        /\ filters = [k \in DecorationKinds |-> NoFilters]
        /\ pos = z.pos
        /\ possibleTiles = {p \in z.zone : p # z.pos /\ p \notin free}
        /\ freePaths = {z.pos}
        /\ roadNodes = {}
        /\ roads = <<>>
        /\ objects = {}
        /\ decorations = <<>>
        /\ todo = NoTodo
        /\ pc = "fractalize"
        /\ last = NoAttempt

\* fractalize up to its last loop; last keeps the occupancy at entry and the
\* nodes.
fractalizeToNodes ==
    /\ pc = "fractalize"
    /\ pc' = "blockDistantTiles"
    /\ \E byRef \in BOOLEAN :
          \E r \in fractalizeNodes(occ, freePaths, tmpl.type, byRef) :
              /\ occ' = r.occ
              /\ freePaths' = r.freePaths
              /\ last' = [NoAttempt EXCEPT !.op = "fractalize", !.before = occ,
                                           !.trace = SeqRange(r.nodes)]
    /\ UNCHANGED <<ground, road, nod, zoneOf, tmpl, filters, pos, possibleTiles, roadNodes,
                   roads, objects, decorations, todo>>

\* The last loop of fractalize; last keeps the occupancy the loop found.
fractalizeBlock ==
    /\ pc = "blockDistantTiles"
    /\ pc' = "placeCities"
    /\ occ' = blockDistantTiles(occ, freePaths)
    /\ last' = [last EXCEPT !.after = occ]
    /\ UNCHANGED <<ground, road, nod, zoneOf, tmpl, filters, pos, possibleTiles, freePaths,
                   roadNodes, roads, objects, decorations, todo>>

NextFractal ==
    \/ fractalizeToNodes
    \/ fractalizeBlock

SpecFractal == InitFractal /\ [][NextFractal]_vars


\* ------------------------------------------------------- guarded sites alone
\* One merchant or one ruin placed on a zone of three columns whose lower
\* rows are possible, free or blocked in every combination.  The guard of
\* the template has a value or none and is declared for a race that has a
\* player in the scenario or has none.
GuardZone == [zone |-> Rect(1, 3, 1, 5), pos |-> <<2, 5>>, entries |-> {}]

GuardVaried == {<<1, 4>>, <<2, 4>>, <<3, 4>>, <<1, 5>>, <<3, 5>>}

Races == {"Human", "Undead"}

neutralPlayerId == "Neutral"

\* MapGenerator::getPlayerId and getSubraceId: the id registered for the race,
\* or the empty id.
getPlayerId(registered, race) == IF race \in registered THEN race ELSE emptyId

getSubraceId(registered, race) == IF race \in registered THEN race ELSE emptyId

\* Faulty variant: the guard is given to the declared race even when the
\* scenario has no such player.
guardOwnerAsDeclared(registered, race) == [owner |-> race, subrace |-> race]

\* guardObject: owner and subrace of the guard stack.
guardOwner(registered, race) ==
    IF getPlayerId(registered, race) = emptyId \/ getSubraceId(registered, race) = emptyId
    THEN [owner |-> neutralPlayerId, subrace |-> neutralPlayerId]
    ELSE [owner |-> getPlayerId(registered, race), subrace |-> getSubraceId(registered, race)]

\* guardObject: the stacks it places, with their owners.
guardStacks(o, size, position, guardInfo, registered) ==
    IF getAccessibleTiles(o, size, position) = {} \/ ~hasValue(guardInfo.value) THEN {}
    ELSE {[pos |-> getAccessibleOffset(o, size, position)] @@ guardOwner(registered,
                                                                          guardInfo.owner)}

NoGuarding == [registered |-> {}, guards |-> {}, garrison |-> FALSE]

InitGuard ==
    \E zoneOcc \in [GuardVaried -> {"Possible", "Free", "Blocked"}],
       value \in {NoValue, [min |-> MinStackValue, max |-> MaxStackValue]},
       owner \in Races, registered \in SUBSET Races,
       phase \in {"placeMerchants", "placeRuins"} :
        /\ occ = [p \in Tiles |-> IF p \in GuardVaried THEN zoneOcc[p]
                                  ELSE IF p = GuardZone.pos THEN "Free" ELSE "Possible"]
        /\ ground = [p \in Tiles |-> "Plain"]
        /\ road = [p \in Tiles |-> FALSE]
        /\ nod = [p \in Tiles |-> InfDistance]
        /\ zoneOf = [p \in Tiles |-> IF p \in GuardZone.zone THEN ZoneId ELSE OtherZoneId]
        /\ tmpl = [guard |-> [value |-> value, owner |-> owner]]
        /\ filters = [k \in DecorationKinds |-> NoFilters]
        /\ pos = GuardZone.pos
        /\ possibleTiles = {p \in GuardZone.zone : occ[p] = "Possible"}
        /\ freePaths = {GuardZone.pos}
        /\ roadNodes = {}
        /\ roads = <<>>
        /\ objects = {}
        /\ decorations = <<>>
        /\ todo = [NoGuarding EXCEPT !.registered = registered]
        /\ pc = phase
        /\ last = NoAttempt

\* One round of while (true) in placeMerchants: a place is searched and
\* tried; on Success placeMerchant places the site and guardObject its guard.
callPlaceMerchant ==
    /\ pc = "placeMerchants"
    /\ LET places == findPlaceForObject(occ, nod, tileInfo, siteSize, SiteSize * 2, TRUE)
       IN  IF places = {}
           THEN /\ pc' = "LackOfSpace"
                /\ UNCHANGED <<occ, nod, possibleTiles, roadNodes, objects, decorations,
                               todo, last>>
           ELSE \E position \in places :
                   \E r \in tryToPlaceObjectAndConnectToPath(occ, possibleTiles,
                                                              siteSize, position) :
                       /\ last' = attempt(r, siteSize, position)
                       /\ possibleTiles' = r.possibleTiles
                       /\ IF r.result = "Success"
                          THEN LET placed == placeObject(placementState(r.occ, nod, roadNodes,
                                                                        objects),
                                                         r.possibleTiles, "Site", siteSize,
                                                         position, TRUE)
                                   st == guardObject(placed, r.possibleTiles, siteSize,
                                                     position, hasValue(tmpl.guard.value))
                               IN  /\ occ' = st.occ /\ nod' = st.nod
                                   /\ roadNodes' = st.roadNodes
                                   /\ objects' = st.objects
                                   /\ decorations' = Append(decorations,
                                          decoration("Site", siteSize, position, 0))
                                   /\ todo' = [todo EXCEPT !.guards =
                                                  guardStacks(placed.occ, siteSize, position,
                                                              tmpl.guard, todo.registered)]
                                   /\ pc' = "placed"
                          ELSE /\ occ' = r.occ
                               /\ pc' = pc
                               /\ UNCHANGED <<nod, roadNodes, objects, decorations, todo>>
    /\ UNCHANGED <<ground, road, zoneOf, tmpl, filters, pos, freePaths, roads>>

\* One round of while (true) in placeRuins: on Success placeRuin puts the
\* guard into the ruin's own group and places the ruin.
callPlaceRuin ==
    /\ pc = "placeRuins"
    /\ LET places == findPlaceForObject(occ, nod, tileInfo, siteSize, SiteSize * 2, TRUE)
       IN  IF places = {}
           THEN /\ pc' = "LackOfSpace"
                /\ UNCHANGED <<occ, nod, possibleTiles, roadNodes, objects, decorations,
                               todo, last>>
           ELSE \E position \in places :
                   \E r \in tryToPlaceObjectAndConnectToPath(occ, possibleTiles,
                                                              siteSize, position) :
                       /\ last' = attempt(r, siteSize, position)
                       /\ possibleTiles' = r.possibleTiles
                       /\ IF r.result = "Success"
                          THEN LET st == placeObject(placementState(r.occ, nod, roadNodes,
                                                                    objects),
                                                     r.possibleTiles, "Ruin", siteSize,
                                                     position, TRUE)
                               IN  /\ occ' = st.occ /\ nod' = st.nod
                                   /\ roadNodes' = st.roadNodes
                                   /\ objects' = st.objects
                                   /\ decorations' = Append(decorations,
                                          decoration("Ruin", siteSize, position, 0))
                                   /\ todo' = [todo EXCEPT !.garrison =
                                                              hasValue(tmpl.guard.value)]
                                   /\ pc' = "placed"
                          ELSE /\ occ' = r.occ
                               /\ pc' = pc
                               /\ UNCHANGED <<nod, roadNodes, objects, decorations, todo>>
    /\ UNCHANGED <<ground, road, zoneOf, tmpl, filters, pos, freePaths, roads>>

NextGuard ==
    \/ callPlaceMerchant
    \/ callPlaceRuin

SpecGuard == InitGuard /\ [][NextGuard]_vars


\* ------------------------------------------------------ the draw loops alone
\* The while loops of createLoot and placeMercenary, one round per step, over
\* every catalog made of items worth 0 to 3 and of units that cost 0 to 2.
\* todo.i counts the rounds; the loops are followed for MaxLootValue + 2
\* rounds at most, two more than a loop can need whose draws all add value.
WorthlessItem == [id |-> "trinket", value |-> 0, type |-> "Potion"]

ItemCatalogs == {c \in SUBSET (Items \cup {WorthlessItem}) : c # {}}

UnitCatalogs ==
    {c \in SUBSET {[id |-> "peasant", enrollCost |-> 0, subrace |-> "Human"],
                   [id |-> "squire", enrollCost |-> 1, subrace |-> "Human"],
                   [id |-> "ghost", enrollCost |-> 2, subrace |-> "Undead"]} : c # {}}

DrawValues == {[min |-> 1, max |-> 2], [min |-> MaxLootValue, max |-> MaxLootValue]}

\* placeMercenary, the filters of one draw: noWrongType, noWrongValue and the
\* forbidden units.
mercenaryCandidates(catalog, mercInfo, forbiddenUnits, remainingValue) ==
    {info \in catalog :
        /\ mercInfo.subraceTypes = {} \/ info.subrace \in mercInfo.subraceTypes
        /\ ~(/\ hasValue(mercInfo.enrollValue)
             /\ info.enrollCost < mercInfo.enrollValue.min
                   \/ info.enrollCost > mercInfo.enrollValue.max)
        /\ info.enrollCost <= remainingValue
        /\ info.id \notin forbiddenUnits}

InitDraw ==
    \E items \in ItemCatalogs, units \in UnitCatalogs, value \in DrawValues,
       range \in {NoValue, [min |-> 1, max |-> 2]}, forMerchant \in BOOLEAN,
       phase \in {"createLoot", "placeMercenary"} :
        /\ phase = "createLoot" => units = {[id |-> "squire", enrollCost |-> 1,
                                             subrace |-> "Human"]}
        /\ phase = "placeMercenary" => items = {WorthlessItem} /\ ~forMerchant
        /\ Begin([layout |-> PathsZone,
                  tmpl |-> [items |-> items, units |-> units, forMerchant |-> forMerchant,
                            loot |-> [NoLoot EXCEPT !.value = value, !.itemValue = range],
                            merc |-> [value |-> value, enrollValue |-> range,
                                      subraceTypes |-> {}],
                            forbiddenItems |-> {}, forbiddenUnits |-> {}]],
                 [k \in DecorationKinds |-> NoFilters], [p \in Tiles |-> "Possible"], {}, phase)

\* createLoot and placeMercenary up to their while loops: the value is rolled.
rollDesiredValue ==
    /\ pc \in {"createLoot", "placeMercenary"}
    /\ \E desiredValue \in pickValue(IF pc = "createLoot" THEN tmpl.loot.value
                                     ELSE tmpl.merc.value) :
          todo' = [NoLooting EXCEPT !.desiredValue = desiredValue]
    /\ pc' = IF pc = "createLoot" THEN "drawItems" ELSE "drawUnits"
    /\ UNCHANGED <<occ, ground, road, nod, zoneOf, tmpl, filters, pos, possibleTiles, freePaths,
                   roadNodes, roads, objects, decorations, last>>

\* createLoot: one round of while (currentValue <= desiredValue), or its end.
drawLootItem ==
    /\ pc = "drawItems"
    /\ todo.i < MaxLootValue + 2
    /\ LET items == lootCandidatesIn(tmpl.items, tmpl.loot, tmpl.forMerchant,
                                     tmpl.forbiddenItems,
                                     todo.desiredValue - todo.currentValue)
       IN  IF todo.currentValue <= todo.desiredValue /\ items # {}
           THEN /\ \E item \in items :
                       todo' = [todo EXCEPT !.currentValue = @ + item.value,
                                            !.items = Append(@, <<item.id, 1>>),
                                            !.i = @ + 1]
                /\ pc' = pc
           ELSE /\ pc' = "looted"
                /\ UNCHANGED todo
    /\ UNCHANGED <<occ, ground, road, nod, zoneOf, tmpl, filters, pos, possibleTiles, freePaths,
                   roadNodes, roads, objects, decorations, last>>

\* placeMercenary: one round of while (currentValue <= desiredValue), or its
\* end.
drawMercenaryUnit ==
    /\ pc = "drawUnits"
    /\ todo.i < MaxLootValue + 2
    /\ LET units == mercenaryCandidates(tmpl.units, tmpl.merc, tmpl.forbiddenUnits,
                                        todo.desiredValue - todo.currentValue)
       IN  IF todo.currentValue <= todo.desiredValue /\ units # {}
           THEN /\ \E unit \in units :
                       todo' = [todo EXCEPT !.currentValue = @ + unit.enrollCost,
                                            !.items = Append(@, <<unit.id, 1>>),
                                            !.i = @ + 1]
                /\ pc' = pc
           ELSE /\ pc' = "enrolled"
                /\ UNCHANGED todo
    /\ UNCHANGED <<occ, ground, road, nod, zoneOf, tmpl, filters, pos, possibleTiles, freePaths,
                   roadNodes, roads, objects, decorations, last>>

NextDraw ==
    \/ rollDesiredValue
    \/ drawLootItem
    \/ drawMercenaryUnit

SpecDraw == InitDraw /\ [][NextDraw]_vars

\* ------------------------------------------------------------------ claims
\* The zone has been filled: fill() has returned (its last step is placeBags).
zoneFilled == pc \in {"createBorder", "decorate", "createObstacles", "connectRoads", "done"}

objectTiles(ob) == getBlockedPositions(ob.size, ob.pos) \cup {getEntrance(ob.size, ob.pos)}

isFortRuinOrSite(ob) == ob.kind \in {"Village", "Capital", "Ruin", "Site"}

\* isEntranceBlocked: every tile near the entrance is Blocked, or Used by
\* something that is not a forest and carries no road.
isEntranceBlocked(ob) ==
    \A off \in getEntranceOffsets :
        LET p == Add(getEntrance(ob.size, ob.pos), off)
        IN  \/ ~isInTheMap(p)
            \/ shouldBeBlocked(occ, p)
            \/ ~road[p] /\ isUsed(occ, p) /\ ground[p] # "Forest"

\* C1: once the zone is filled, every tile of every placed object's blocked
\* positions and its entrance tile is Used; no later placement (gap tiles,
\* blueprint, path carving) has changed it.
C1_ObjectTilesUsed ==
    zoneFilled => \A ob \in objects : \A t \in objectTiles(ob) : isUsed(occ, t)

\* C2: once the zone is filled, every fortification, ruin and site has at
\* least one tile of its entrance neighbourhood that is not blocked.
C2_EntranceReachable ==
    zoneFilled => \A ob \in objects : isFortRuinOrSite(ob) => ~isEntranceBlocked(ob)

\* C5: when tryToPlaceObjectAndConnectToPath returns CannotFit or SealedOff,
\* every tile has the occupancy it had before the call (the blueprint is
\* released), except the tiles sealed off by connectPath, which went from
\* Possible to Blocked; with CannotFit no tile changed.
C5_FailureRestoresOccupancy ==
    (last.op = "tryToPlace" /\ last.result \in {"CannotFit", "SealedOff"}) =>
        /\ occ = last.after
        /\ \A t \in Tiles :
              IF t \in last.sealed
              THEN last.before[t] = "Possible" /\ occ[t] = "Blocked"
              ELSE occ[t] = last.before[t]
        /\ last.result = "CannotFit" => occ = last.before

\* C5 witness: a call that ended SealedOff on a Possible tile, with tiles
\* sealed off and the footprint Possible again.
C5_SealedOffReached ==
    /\ last.op = "tryToPlace"
    /\ last.result = "SealedOff"
    /\ last.sealed # {}
    /\ last.before[last.position] = "Possible"
    /\ occ[last.position] = "Possible"

\* --------------------------------------------------------------------- C3
RECURSIVE reachableIn(_, _)
reachableIn(S, R) ==
    LET n == {t \in S \ R : \E r \in R : t \in directNeighbors(r)}
    IN  IF n = {} THEN R ELSE reachableIn(S, R \cup n)

isFourConnected(S) == S = {} \/ reachableIn(S, {CHOOSE t \in S : TRUE}) = S

roadTiles == {t \in tileInfo : road[t]}

\* C3 as stated: once the zone is filled, freePaths united with the road tiles
\* of the zone is 4-connected and every road node lies in freePaths or is Free.
C3_FreeNetworkConnected ==
    zoneFilled =>
        /\ isFourConnected(freePaths \cup roadTiles)
        /\ \A n \in roadNodes : n \in freePaths \/ isFree(occ, n)

\* C3 amended: once the zone is filled, every road node is the entrance tile
\* of a placed fortification or site and is not in freePaths; and freePaths
\* holds only zone tiles that are Free or Used.
C3_RoadNodesAreEntrances ==
    zoneFilled =>
        /\ \A n \in roadNodes :
              /\ n \notin freePaths
              /\ \E ob \in objects : /\ ob.kind \in {"Village", "Capital", "Site"}
                                     /\ getEntrance(ob.size, ob.pos) = n
        /\ \A t \in freePaths : t \in tileInfo /\ (isFree(occ, t) \/ isUsed(occ, t))

\* C3 witness: a filled zone with two road nodes and a free network.
C3_NodesAndPathsReached ==
    zoneFilled /\ Cardinality(roadNodes) >= 2 /\ Cardinality(freePaths) >= 2

\* --------------------------------------------------------------------- C6
\* The objects initTowns places before initFreeTiles builds possibleTiles:
\* the capital with its visitor stack, or the first village.
initTownObjects == IF isStartZone THEN 2 ELSE IF tmpl.cities # <<>> THEN 1 ELSE 0

fillDone == pc = "createBorder"

\* C6 as stated: after the fill every Possible tile of the zone has a finite
\* nearest-object distance, whatever the zone holds.
C6_FiniteDistance ==
    fillDone => \A t \in tileInfo : isPossible(occ, t) => nod[t] < InfDistance

\* C6 amended: after the fill every Possible tile of the zone has a finite
\* nearest-object distance when fill placed an object after initFreeTiles
\* built possibleTiles; when it placed none and reserved no place for a
\* stack, every Possible tile still has the initial, infinite distance.
C6_FiniteOnceObjectPlaced ==
    fillDone =>
        \A t \in tileInfo :
            isPossible(occ, t) =>
                /\ Cardinality(objects) > initTownObjects => nod[t] < InfDistance
                /\ (Cardinality(objects) = initTownObjects /\ stacksTotal = 0) =>
                      nod[t] = InfDistance

\* C6 witness: a filled zone with an object placed by fill and a Possible tile.
C6_PlacedAndPossibleReached ==
    /\ fillDone
    /\ Cardinality(objects) > initTownObjects
    /\ \E t \in tileInfo : isPossible(occ, t)

\* --------------------------------------------------------------------- C7
\* C7 as stated: after createBorder no border tile is Free under a Closed
\* border and none is Blocked under an Open border, whatever it was before.
C7_BorderFollowsType ==
    last.op = "createBorder" =>
        \A t \in tileInfo :
            isBorderTile(t) =>
                /\ tmpl.borderType = "Closed" => ~isFree(last.after, t)
                /\ tmpl.borderType = "Open" => ~shouldBeBlocked(last.after, t)

\* C7 amended: createBorder sets exactly the border tiles that were Possible:
\* Blocked under Closed, Free under Open and Water, one of the two under
\* SemiOpen; every other tile keeps its occupancy.
C7_PossibleBorderTilesSet ==
    last.op = "createBorder" =>
        \A t \in Tiles :
            IF t \in tileInfo /\ isBorderTile(t) /\ last.before[t] = "Possible"
            THEN /\ tmpl.borderType = "Closed" => last.after[t] = "Blocked"
                 /\ tmpl.borderType \in {"Open", "Water"} => last.after[t] = "Free"
                 /\ last.after[t] \in {"Free", "Blocked"}
            ELSE last.after[t] = last.before[t]

\* C7 witness: createBorder ran on a zone with a Possible border tile and a
\* border tile that was not Possible.
C7_BorderSetReached ==
    /\ last.op = "createBorder"
    /\ \E t \in tileInfo : isBorderTile(t) /\ last.before[t] = "Possible"
    /\ \E t \in tileInfo : isBorderTile(t) /\ last.before[t] # "Possible"

\* --------------------------------------------------------------------- C8
obstaclesDone == pc \in {"connectRoads", "done"}

\* C8 as stated: with the forest setting 0 no tile of the zone has Forest
\* ground after createObstacles.
C8_NoForest ==
    (tmpl.forest = 0 /\ obstaclesDone) => \A t \in tileInfo : ground[t] # "Forest"

\* C8 amended: with the forest setting 0 the forest pass of createObstacles
\* plants nothing; a tile gets Forest ground only from the decoration being
\* applied, inside that decoration's area.
C8_ForestOnlyFromDecorations ==
    [][tmpl.forest = 0 =>
          \A t \in Tiles :
              (ground'[t] = "Forest" /\ ground[t] # "Forest") =>
                  /\ pc = "decorate"
                  /\ todo.i < Len(decorations)
                  /\ LET dec == decorations[todo.i + 1]
                     IN  t \in getMapElementArea(occ, dec.size, dec.pos,
                                                 decorationGap(dec.kind))]_vars

\* C8 witness: createObstacles is over with the forest setting 0 and a zone
\* tile carries a forest planted by a decoration.
C8_DecorationForestReached ==
    tmpl.forest = 0 /\ obstaclesDone /\ \E t \in tileInfo : ground[t] = "Forest"

\* --------------------------------------------------------------------- C9
roadFailed == last.op = "createRoad" /\ last.result = "Failed"

\* C9: connectRoads appends at most n-1 roads for n >= 1 road nodes, and
\* exactly n-1 when every createRoad call succeeded.
C9_RoadCount ==
    pc = "done" =>
        LET n == Cardinality(roadNodes)
        IN  /\ n >= 1 => Len(roads) <= n - 1
            /\ n = 0 => Len(roads) = 0
            /\ (n >= 1 /\ ~roadFailed) => Len(roads) = n - 1

\* C9 witness: three road nodes joined by two roads, no createRoad failed.
C9_TreeReached ==
    pc = "done" /\ Cardinality(roadNodes) = 3 /\ Len(roads) = 2 /\ ~roadFailed

\* -------------------------------------------------------------------- C10
\* C10: every recorded road path is diagonal-free: consecutive tiles of the
\* path, and the source and the path tile next to it, differ by one step
\* along one axis.
C10_RoadsDiagonalFree ==
    \A i \in 1 .. Len(roads) :
        LET path == roads[i].path
        IN  /\ \A j \in 1 .. Len(path) - 1 : path[j] \in directNeighbors(path[j + 1])
            /\ path # <<>> => roads[i].source \in directNeighbors(path[Len(path)])

\* --------------------------------------------------------------------- C4
\* The maps the decoration about to be applied can produce, one for each
\* sequence of random draws, in a process whose filter lists hold f.
decorationResults(f) ==
    LET dec == decorations[todo.i + 1]
        captured == captureFilters(f, dec)
    IN  UNION {{[occ |-> r.occ, ground |-> r.ground, objects |-> r.objects] :
                  r \in decorateOutcomes(dec, IF dec.kind = "Ruin" THEN NoFilters
                                              ELSE captured[dec.kind],
                                         landmarksTotal, forestsTotal)} :
               landmarksTotal \in 0 .. tmpl.decoLandmarks,
               forestsTotal \in 0 .. tmpl.decoForests}

\* C4: generation is deterministic: with the same template, catalogs and
\* seed (the same draws) the map does not depend on the execution, so the
\* maps a decoration step can produce are the same in every process,
\* whatever generations the process ran before.
C4_SameMapInEveryProcess ==
    (pc = "decorate" /\ todo.i < Len(decorations)) =>
        \A f \in ProcessFilters : decorationResults(f) = decorationResults(filters)

\* ------------------------------------------------------------- C16, C17
\* The tiles within k steps of src: a step enters a neighbouring tile of the
\* zone that is neither Blocked nor Used.
RECURSIVE withinSteps(_, _, _, _)
withinSteps(o, src, onlyStraight, k) ==
    IF k = 0 THEN {src}
    ELSE LET R == withinSteps(o, src, onlyStraight, k - 1)
         IN  R \cup {q \in UNION {neighbors(p, onlyStraight) : p \in R} :
                        ~isBlocked(o, q) /\ zoneOf[q] = ZoneId}

\* The tiles of S linked to R by neighbouring tiles of S.
RECURSIVE linkedIn(_, _, _)
linkedIn(S, R, onlyStraight) ==
    LET n == {t \in S \ R : \E r \in R : t \in neighbors(r, onlyStraight)}
    IN  IF n = {} THEN R ELSE linkedIn(S, R \cup n, onlyStraight)

\* Everything reachable from src, and the Free tiles among it.
reachableFrom(o, src, onlyStraight) == withinSteps(o, src, onlyStraight, Cardinality(tileInfo))

\* C16: connectPath returns true exactly when a Free tile can be reached from
\* src through in-zone tiles that are neither Blocked nor Used; then src and
\* the tiles of a minimum-step chain of adjacent tiles to a nearest Free tile
\* are Free after the call and no other tile changed.
C16_ConnectPathCarvesShortest ==
    last.op = "connectPath" =>
        LET o == last.before
            src == last.position
            reach == reachableFrom(o, src, last.straight)
            frees == {t \in reach : isFree(o, t)}
            steps(t) == CHOOSE k \in 0 .. Cardinality(tileInfo) :
                            /\ t \in withinSteps(o, src, last.straight, k)
                            /\ \A j \in 0 .. k - 1 : t \notin withinSteps(o, src, last.straight, j)
        IN  /\ last.result <=> frees # {}
            /\ last.result =>
                  \E chain \in SUBSET reach :
                      /\ src \in chain
                      /\ \E g \in chain \cap frees :
                            /\ \A f \in frees : steps(g) <= steps(f)
                            /\ Cardinality(chain) = steps(g) + 1
                      /\ linkedIn(chain, {src}, last.straight) = chain
                      /\ \A t \in Tiles :
                            last.after[t] = IF t \in chain THEN "Free" ELSE o[t]

\* C16 witness: connectPath returned true after carving two tiles or more.
C16_ChainCarvedReached ==
    /\ last.op = "connectPath"
    /\ last.result
    /\ Cardinality({t \in Tiles : last.after[t] # last.before[t]}) >= 2

\* C17: when connectPath returns false, every tile of its closed set (the
\* tiles reachable from src without entering Blocked, Used or out-of-zone
\* tiles) that was Possible is Blocked afterwards and is not in possibleTiles
\* any more; every tile outside the closed set keeps its occupancy.
C17_SealedOffCleanup ==
    (last.op = "connectPath" /\ ~last.result) =>
        LET closed == reachableFrom(last.before, last.position, last.straight)
        IN  \A t \in Tiles :
               /\ (t \in closed /\ last.before[t] = "Possible") =>
                     (occ[t] = "Blocked" /\ t \notin possibleTiles)
               /\ t \notin closed => occ[t] = last.before[t]

\* C17 witness: connectPath returned false and sealed off two tiles that were
\* in possibleTiles.
C17_SealedOffTwoReached ==
    /\ last.op = "connectPath"
    /\ ~last.result
    /\ Cardinality({t \in last.possibleBefore : last.before[t] = "Possible"
                                                 /\ occ[t] = "Blocked"}) >= 2

\* -------------------------------------------------------------------- C18
\* The stated cost of entering a tile: Free 1, Possible 2, Blocked 3 when
\* blocked tiles may be passed; 0 stands for a tile that cannot be entered.
entryCost(o, p, through) ==
    IF zoneOf[p] # ZoneId THEN 0
    ELSE IF o[p] = "Free" THEN 1
    ELSE IF o[p] = "Possible" THEN 2
    ELSE IF o[p] = "Blocked" /\ through THEN 3
    ELSE 0

\* The tiles that can be reached from start at a total cost of c or less.
RECURSIVE withinCost(_, _, _, _, _)
withinCost(o, start, onlyStraight, through, c) ==
    IF c <= 0 THEN (IF c = 0 THEN {start} ELSE {})
    ELSE withinCost(o, start, onlyStraight, through, c - 1)
         \cup {q \in Tiles :
                 LET k == entryCost(o, q, through)
                 IN  /\ k > 0
                     /\ \E p \in withinCost(o, start, onlyStraight, through, c - k) :
                            q \in neighbors(p, onlyStraight)}

RECURSIVE costOf(_, _, _)
costOf(o, S, through) ==
    IF S = {} THEN 0
    ELSE LET t == CHOOSE x \in S : TRUE
         IN  entryCost(o, t, through) + costOf(o, S \ {t}, through)

\* A path of minimum total cost from start to the zone position whose tiles,
\* but for those of keep, are Free after the call, nothing else having changed.
cheapestPathFreed(keep) ==
    LET o == last.before
        start == last.position
        maxCost == 3 * Cardinality(tileInfo)
        within(c) == withinCost(o, start, last.straight, last.through, c)
        minCost == CHOOSE c \in 0 .. maxCost :
                       pos \in within(c) /\ \A j \in 0 .. c - 1 : pos \notin within(j)
    IN  \E chain \in SUBSET (tileInfo \cup {start}) :
            /\ start \in chain
            /\ pos \in chain
            /\ linkedIn(chain, {start}, last.straight) = chain
            /\ \A t \in chain \ {start} : entryCost(o, t, last.through) > 0
            /\ costOf(o, chain \ {start}, last.through) = minCost
            /\ \A t \in Tiles :
                  last.after[t] = IF t \in chain \ keep THEN "Free" ELSE o[t]

\* C18 as stated: when connectWithCenter returns true, every tile of a
\* minimum-cost path from start to the zone position, both end tiles
\* included, is Free after the call.
C18_PathFreeWithEnds ==
    (last.op = "connectWithCenter" /\ last.result) => cheapestPathFreed({})

\* C18 amended: when connectWithCenter returns true, every tile of a
\* minimum-cost path from start to the zone position except the start tile
\* is Free after the call (crossed Blocked tiles included); the start tile
\* and every tile off the path keep their occupancy.
C18_PathFreeButStart ==
    (last.op = "connectWithCenter" /\ last.result) => cheapestPathFreed({last.position})

\* C18 witness: connectWithCenter returned true from a start tile that was
\* not Free, on a path that crossed a Blocked tile.
C18_BlockedCrossedReached ==
    /\ last.op = "connectWithCenter"
    /\ last.result
    /\ last.through
    /\ last.before[last.position] # "Free"
    /\ \E t \in tileInfo : last.before[t] = "Blocked" /\ last.after[t] = "Free"

\* --------------------------------------------------------------- C19, C20
\* The tiles linked to src by neighbouring tiles that are Free after the call.
linkedToSource ==
    linkedIn({last.position} \cup {t \in Tiles : last.after[t] = "Free"},
             {last.position}, last.straight)

C20_OnlyPossibleBecomesFree ==
    last.op = "crunchPath" =>
        \A t \in Tiles :
            last.after[t] # last.before[t] =>
                /\ last.before[t] = "Possible"
                /\ last.after[t] = "Free"
                /\ zoneOf[t] = ZoneId

\* C20 witness: crunchPath carved a tile by its fallback step (the tile is
\* not nearer to the destination than the source) in a zone that holds a
\* Blocked and a Used tile.
C20_FallbackCarvedReached ==
    /\ last.op = "crunchPath"
    /\ \E t \in tileInfo :
          /\ last.before[t] = "Possible" /\ last.after[t] = "Free"
          /\ distanceSquared(t, last.target) >= distanceSquared(last.position, last.target)
    /\ \E t \in tileInfo : last.before[t] = "Blocked"
    /\ \E t \in tileInfo : last.before[t] = "Used"

\* --------------------------------------------------------------- C11, C12
\* createStack has returned a stack.
stackCreated == pc = "done" /\ objects # {}

\* The value of the soldiers of a group, a big unit counted once.
RECURSIVE groupValueFrom(_, _)
groupValueFrom(groupUnits, position) ==
    IF position > 5 THEN 0
    ELSE IF groupUnits[position] = NoUnit THEN groupValueFrom(groupUnits, position + 1)
    ELSE unitInfo(groupUnits[position]).value
         + groupValueFrom(groupUnits, IF unitInfo(groupUnits[position]).big
                                      THEN position + 2 ELSE position + 1)

\* The slots a leader belongs in.
leaderSlots(leaderInfo) ==
    IF leaderInfo.big THEN {2, 3}
    ELSE IF leaderInfo.support \/ leaderInfo.reach # "Adjacent" THEN {3}
    ELSE {2}

\* C11: a createStack call with a rolled value of at least minLeaderValue
\* returns a stack; its group holds exactly one leader, in slots 2 and 3 if it
\* is big, in slot 3 if it is a support or ranged leader and in slot 2
\* otherwise; no soldier shares a slot with the leader, every picked soldier
\* is in the group and the stack has at least one unit.
C11_OneLeaderInItsSlots ==
    (pc = "done" /\ hasValue(tmpl.stackInfo.value)) =>
        /\ Cardinality(objects) = 1
        /\ todo.strength >= getMinLeaderValue
        /\ \A st \in objects :
              LET slots == leaderSlots(unitInfo(st.leaderImpl))
                  units == {st.group[s] : s \in GroupSlots} \ {0}
              IN  /\ {s \in GroupSlots : st.group[s] = st.leader} = slots
                  /\ unitInfo(st.leaderImpl).leader
                  /\ \A s \in slots : todo.soldiers[s] = NoUnit
                  /\ Cardinality(units) >= 1
                  /\ Cardinality(units) = 1 + Cardinality(groupUnitsFrom(todo.soldiers, 0))

\* C11 witness: a stack with a big leader in slots 2 and 3 and two soldiers
\* in the other columns.
C11_BigLeaderWithSoldiersReached ==
    /\ stackCreated
    /\ todo.leader = "lBig"
    /\ \E st \in objects :
          /\ st.group[2] = st.leader /\ st.group[3] = st.leader
          /\ Cardinality({st.group[s] : s \in GroupSlots} \ {0}) = 3

\* C12 as stated: the value of the leader and the soldiers of a created stack
\* never exceeds the rolled value, and the unused value never falls below 0.
C12_ValueWithinRoll ==
    /\ pc \in {"createGroup", "tightenGroup", "finishStack"} \/ stackCreated
          => todo.unusedValue >= 0
    /\ stackCreated =>
          unitInfo(todo.leader).value + groupValueFrom(todo.soldiers, 0) <= todo.strength

\* C12 amended: the unused value never falls below 0 and the soldiers' value
\* never exceeds the rolled value V; leader and soldiers together are worth at
\* most V when the leader is picked by value, at most the larger of V and the
\* leader's value when it is picked from the explicit leader ids, and at most
\* V + minLeaderValue when the weakest leader is taken as a fallback.
C12_ValueWithinRollByPath ==
    /\ pc \in {"createGroup", "tightenGroup", "finishStack"} \/ stackCreated
          => todo.unusedValue >= 0
    /\ stackCreated =>
          LET leaderValue == unitInfo(todo.leader).value
              soldiersValue == groupValueFrom(todo.soldiers, 0)
              V == todo.strength
          IN  /\ soldiersValue <= V
              /\ todo.path = "value" => leaderValue + soldiersValue <= V
              /\ todo.path = "leaderIds" =>
                    leaderValue + soldiersValue <= (IF leaderValue > V THEN leaderValue ELSE V)
              /\ todo.path = "weakest" =>
                    leaderValue + soldiersValue <= V + getMinLeaderValue

\* C12 witness: the weakest leader was taken as a fallback and the soldiers
\* alone are worth the whole rolled value.
C12_WeakestLeaderOverspendReached ==
    /\ stackCreated
    /\ todo.path = "weakest"
    /\ groupValueFrom(todo.soldiers, 0) = todo.strength
    /\ todo.unusedValue = 0

\* --------------------------------------------------------------- C13, C14
\* The value of a list of items.
RECURSIVE itemsValue(_)
itemsValue(ids) ==
    IF ids = <<>> THEN 0
    ELSE (CHOOSE info \in Items : info.id = Head(ids)).value + itemsValue(Tail(ids))

\* C13: at every point of the drawing loop of createLoot, and at its end, the
\* values of the randomly drawn items sum to no more than the rolled
\* desiredValue.
C13_DrawnWithinDesired ==
    pc \in {"drawItems", "looted"} =>
        /\ itemsValue(todo.drawn) <= todo.desiredValue
        /\ todo.currentValue = itemsValue(todo.drawn)

\* C13 witness: createLoot has ended with three drawn items that use up a
\* rolled value of MaxLootValue.
C13_DesiredUsedUpReached ==
    /\ pc = "looted"
    /\ Len(todo.drawn) = 3
    /\ todo.desiredValue = MaxLootValue
    /\ itemsValue(todo.drawn) = todo.desiredValue

\* How many times an item is in a list of items.
countIn(items, id) == Cardinality({k \in 1 .. Len(items) : items[k] = id})

\* How many times an item is in the inventories of the created stacks.
RECURSIVE countInStacks(_, _)
countInStacks(stacks, id) ==
    IF stacks = {} THEN 0
    ELSE LET st == CHOOSE x \in stacks : TRUE
         IN  countIn(st.inventory, id) + countInStacks(stacks \ {st}, id)

\* C14: after createLoot, and after placeStacks has filled the inventories of
\* a group, every required item of the loot specification is present, at least
\* its minimum amount of times, whatever random items were drawn and whichever
\* stacks of the group were created; the required items created are within
\* their [min, max] amounts.
C14_RequiredItemsPresent ==
    LET required == tmpl.loot.requiredItems
        entries == {k \in 1 .. Len(required) : required[k].itemId # emptyId}
    IN  /\ pc = "looted" =>
              \A k \in entries :
                  /\ countIn(lootItems(todo.items), required[k].itemId) >= required[k].amount.min
                  /\ countIn(lootItems(todo.items), required[k].itemId)
                         - countIn(todo.drawn, required[k].itemId) <= required[k].amount.max
        /\ (pc = "done" /\ todo.stackItems # <<>>) =>
              \A k \in entries :
                  /\ countInStacks(objects, required[k].itemId) >= required[k].amount.min
                  /\ countIn(todo.requiredItems, required[k].itemId) <= required[k].amount.max

\* -------------------------------------------------------------------- C15
\* The zones of the tables by id: the type of an id is that of its last table.
startingZonesOf(tables) ==
    {id \in {tables[k].id : k \in 1 .. Len(tables)} :
        LET k == CHOOSE k \in 1 .. Len(tables) :
                     tables[k].id = id /\ \A m \in (k + 1) .. Len(tables) : tables[m].id # id
        IN  tables[k].type \in {"PlayerStart", "AiStart"}}

validRelation(r) == ~(r.alliance /\ r.alwaysAtWar) /\ (r.permanentAlliance => r.alliance)

\* The template of the tables breaks a rule of the reader.
breaksRules(table, maxPlayers) ==
    \/ Cardinality(startingZonesOf(table.zones)) > maxPlayers
    \/ \E k \in 1 .. Len(table.diplomacy.tables) : ~validRelation(table.diplomacy.tables[k])
    \/ \E i, j \in 1 .. Len(table.diplomacy.tables) :
           i # j /\ table.diplomacy.tables[i] = table.diplomacy.tables[j]

\* C15: when readContents returns without TemplateException the template has
\* at most maxPlayers starting zones, every diplomacy relation is valid (not
\* alliance and alwaysAtWar together, permanentAlliance only with alliance)
\* and no two relations are equal; a template that breaks one of these rules
\* is rejected with TemplateException.
C15_AcceptedTemplateValid ==
    last.op = "readContents" =>
        LET zones == tmpl.contents.zones
            relations == tmpl.contents.diplomacy
        IN  /\ last.result = "returned" =>
                  /\ Cardinality({id \in DOMAIN zones : zones[id].type \in StartTypes})
                         <= tmpl.settings.maxPlayers
                  /\ \A k \in 1 .. Len(relations) : validRelation(relations[k])
                  /\ \A i, j \in 1 .. Len(relations) : i # j => relations[i] # relations[j]
            /\ breaksRules(todo, tmpl.settings.maxPlayers)
                  => last.result = "TemplateException"

\* C15 witness: a template with two starting zones, two players and two valid
\* relations, one of them a permanent alliance, is accepted.
C15_TwoStartsAcceptedReached ==
    /\ last.op = "readContents"
    /\ last.result = "returned"
    /\ Cardinality(startingZonesOf(todo.zones)) = 2
    /\ tmpl.settings.maxPlayers = 2
    /\ Len(tmpl.contents.diplomacy) = 2
    /\ \E k \in 1 .. 2 : tmpl.contents.diplomacy[k].permanentAlliance

\* ---------------------------------------------------------------- C21
possibleInZone(o) == {p \in tileInfo : isPossible(o, p)}

\* C21: crunchPath terminates for every grid, source and destination: when a
\* loop round is over and the loop goes on, at least one tile of the zone that
\* was possible at the top of the round is free and no tile became possible,
\* so the rounds that go on are at most the possible tiles of the zone, and
\* the call returns.
C21_CrunchPathTerminates ==
    /\ [](pc = "while" /\ todo.rounds > 0 /\ ~todo.end =>
              /\ possibleInZone(occ) \subseteq todo.atTop
              /\ possibleInZone(occ) # todo.atTop
              /\ \A p \in todo.atTop \ possibleInZone(occ) : isFree(occ, p))
    /\ [](pc # "crunchPath" => todo.rounds <= Cardinality(possibleInZone(last.before)) + 1)
    /\ <>(pc = "returned")

\* A call that went on by a fallback step, freed two tiles and gave up.
C21_GaveUpAfterFallbackReached ==
    /\ pc = "returned"
    /\ ~todo.result
    /\ Cardinality(possibleInZone(last.before) \ possibleInZone(last.after)) >= 2

\* ---------------------------------------------------------------- C22
\* A tile the claim lets findPlaceForObject return for the call in todo.
fitsAt(t) ==
    /\ t \in todo.area
    /\ occ[t] = "Possible"
    /\ \A off \in getBlockedOffsets(todo.size) :
          LET b == Add(t, off)
          IN  /\ isInTheMap(b)
              /\ ~isAtTheBorder(b)
              /\ occ[b] = "Possible"
              /\ zoneOf[b] = zoneOf[t]
    /\ todo.findAccessible =>
          /\ isAccessibleFromSomewhere(occ, todo.size, t)
          /\ isEntranceAccessible(occ, todo.size, t)
    /\ nod[t] >= todo.minDistance

\* C22: findPlaceForObject returns true exactly when the area holds a tile
\* that is possible, keeps the element off the map border, passes the
\* accessibility tests when they are asked for, is at least minDistance from
\* the nearest object and has every tile under the element in the map,
\* possible and of the same zone; the tile it returns is such a tile with the
\* largest distance, and no tile is changed.
C22_FindPlaceFindsBest ==
    pc = "found" =>
        /\ todo.result <=> \E t \in Tiles : fitsAt(t)
        /\ todo.result =>
              /\ fitsAt(todo.position)
              /\ \A u \in Tiles : fitsAt(u) => nod[u] <= nod[todo.position]
        /\ occ = last.before

\* A two by two element found a place although a nearer tile was also fit
\* for it by everything but the distance.
C22_FarthestOfSeveralReached ==
    /\ pc = "found"
    /\ todo.result
    /\ todo.findAccessible
    /\ todo.size = <<2, 2>>
    /\ nod[todo.position] < InfDistance
    /\ \E u \in todo.area : u # todo.position /\ occ[u] = "Possible"
                              /\ nod[u] < nod[todo.position]

\* ---------------------------------------------------------------- C23
\* C23: every placement retry loop terminates: a try that fails leaves fewer
\* possible tiles in the zone than it found and gives none back, so the loops
\* end with their objects placed or with LackOfSpace.
C23_RetryLoopsTerminate ==
    /\ [](last.op = "tryToPlace" /\ last.result # "Success" =>
              /\ possibleInZone(last.after) \subseteq possibleInZone(last.before)
              /\ possibleInZone(last.after) # possibleInZone(last.before))
    /\ <>(pc \in {"createBorder", "LackOfSpace"})

\* A try was sealed off after an object had been placed, and the loop goes on.
C23_SealedOffRetryReached ==
    /\ pc = "findPlace"
    /\ last.result = "SealedOff"
    /\ last.sealed # {}
    /\ objects # {} \/ todo.positions # {}


\* The crystal a required object of the zone stands for, placed at position.
requiredObjectAt(position) ==
    [kind |-> "Crystal", size |-> crystalSize, pos |-> position, gap |-> 0]

\* C24: for each required object createRequiredObjects makes one placement
\* attempt.  When findPlaceForObject finds no tile, or the attempt returns
\* CannotFit or SealedOff, LackOfSpace is thrown and neither the object nor a
\* decoration is added; only on Success the object is placed with
\* placeScenarioObject at the tried position and its decoration is queued.
C24_RequiredObjectSingleAttempt ==
    [][pc = "createRequiredObjects" /\ todo.required > 0 =>
          \/ /\ pc' = "LackOfSpace"
             /\ objects' = objects
             /\ decorations' = decorations
             /\ todo'.required = todo.required
             /\ \/ last' = last
                \/ last'.op = "tryToPlace" /\ last'.result \in {"CannotFit", "SealedOff"}
          \/ /\ pc' = "createRequiredObjects"
             /\ last'.op = "tryToPlace" /\ last'.result = "Success"
             /\ todo'.required = todo.required - 1
             /\ objects' = objects \cup {requiredObjectAt(last'.position)}
             /\ requiredObjectAt(last'.position) \notin objects
             /\ decorations' = Append(decorations,
                                      decoration("Crystal", crystalSize, last'.position, 0))]_vars

\* A required object's only attempt ended SealedOff: LackOfSpace was thrown
\* with the object still to be placed.
C24_RequiredSealedOffReached ==
    /\ pc = "LackOfSpace"
    /\ todo.required > 0
    /\ last.op = "tryToPlace" /\ last.result = "SealedOff"
    /\ \A ob \in objects : ob.kind # "Crystal"


\* A passage within a quarter of the minimal distance of tile t.
nearPassage(t) == \E c \in freePaths : distanceSquared(t, c) * 4 < FractalMinDistance

\* C25: after fractalize on a zone that is no junction every node is Free,
\* every tile of the zone that is still Possible has a freePaths tile at a
\* squared distance below 0.25 * 75, and the tiles turned Blocked are exactly
\* the tiles the last loop found Possible whose squared distance to every
\* freePaths tile is at least 0.25 * 75.
C25_FractalizeBlocksDistant ==
    pc = "placeCities" /\ last.op = "fractalize" /\ tmpl.type # "Junction" =>
        /\ \A n \in last.trace : isFree(occ, n)
        /\ \A t \in tileInfo : isPossible(occ, t) => nearPassage(t)
        /\ {t \in Tiles : shouldBeBlocked(occ, t) /\ ~shouldBeBlocked(last.before, t)}
              = {t \in tileInfo : isPossible(last.after, t) /\ ~nearPassage(t)}
        /\ \A t \in Tiles : isPossible(last.after, t) => isPossible(last.before, t)

\* fractalize found a node, blocked distant tiles and left near ones Possible.
C25_NodeBlockedAndKeptReached ==
    /\ pc = "placeCities" /\ last.op = "fractalize" /\ tmpl.type # "Junction"
    /\ last.trace # {}
    /\ \E t \in tileInfo : shouldBeBlocked(occ, t)
    /\ \E t \in tileInfo : isPossible(occ, t) /\ t \notin freePaths


\* The steps of fill in the order of its body, and what follows it.
FillOrder ==
    <<"initTerrain", "initFreeTiles", "fractalize", "placeCities", "placeMerchants",
      "placeMages", "placeMercenaries", "placeTrainers", "placeMarkets", "placeRuins",
      "placeMines", "createRequiredObjects", "placeStacks", "placeBags", "createBorder">>

phaseIndex(phase) == CHOOSE i \in 1 .. Len(FillOrder) : FillOrder[i] = phase

\* The kinds of the objects a step has added.
kindsAdded == {ob.kind : ob \in objects' \ objects}

\* A step of the filling: a filling step goes on, hands over to the step
\* after it or throws; and each kind of object is added only by its own step,
\* the capital by the step capitalPhase.
fillStep(capitalPhase) ==
    /\ pc \in SeqRange(FillOrder) \ {"createBorder"} =>
          \/ pc' \in {pc, "LackOfSpace"}
          \/ pc' = FillOrder[phaseIndex(pc) + 1]
    /\ "Capital" \in kindsAdded => pc = capitalPhase
    /\ "Village" \in kindsAdded => pc \in {"initTowns", "placeCities"}
    /\ "Site" \in kindsAdded =>
          pc \in {"placeMerchants", "placeMages", "placeMercenaries", "placeTrainers",
                  "placeMarkets"}
    /\ "Ruin" \in kindsAdded => pc = "placeRuins"
    /\ "Crystal" \in kindsAdded => pc = "createRequiredObjects"
    /\ "Bag" \in kindsAdded => pc = "placeBags"

\* C26 as stated: the steps follow each other in the fixed order and the
\* capital of a start zone is placed in the step after fractalize, where the
\* cities are placed.
C26_FillOrderCapitalAfterFractalize == [][fillStep("placeCities")]_vars

\* C26: fill runs initTerrain, initFreeTiles, fractalize, placeCities, the
\* site placers, placeRuins, placeMines, createRequiredObjects, placeStacks and
\* placeBags in this order, each step starting when the one before it has
\* finished, and the crystals queued by placeMines are placed before the
\* stacks and bags; the capital of a start zone is placed by initTowns, before
\* initTerrain and fractalize, and not by a step of fill.
C26_FillOrderCapitalFirst == [][fillStep("initTowns")]_vars

\* A start zone was filled to the end: its capital stands and a bag was
\* placed by the last step.
C26_StartZoneFilledReached ==
    /\ pc = "createBorder"
    /\ isStartZone
    /\ \E ob \in objects : ob.kind = "Capital"
    /\ \E ob \in objects : ob.kind = "Bag"


\* The stacks on the map and the one object they would guard.
stacksOnMap == {ob \in objects : ob.kind = "Stack"}

guardedObject == CHOOSE ob \in objects : ob.kind \in {"Site", "Ruin"}

\* Exactly one stack is on the map; it stands on a tile of the zone next to
\* the object's entrance and outside its footprint, from which the object can
\* be visited, and belongs to the declared race, or to the neutral player
\* when that race has no player.
oneGuardAtEntrance ==
    LET entrance == getEntrance(guardedObject.size, guardedObject.pos)
    IN  /\ Cardinality(stacksOnMap) = 1
        /\ Cardinality(todo.guards) = 1
        /\ \A st \in stacksOnMap, g \in todo.guards :
              /\ st.pos = g.pos
              /\ st.pos \in allNeighbors(entrance)
              /\ st.pos \notin getBlockedPositions(guardedObject.size, guardedObject.pos)
              /\ isVisitableFrom(Sub(st.pos, entrance))
              /\ isInTheZone(st.pos)
              /\ g.owner = IF tmpl.guard.owner \in todo.registered
                           THEN tmpl.guard.owner ELSE neutralPlayerId

\* C27 as stated: after a site or a ruin whose guard has a value is placed,
\* guardObject has put exactly one guard stack next to its entrance.
C27_SiteOrRuinGuarded ==
    pc = "placed" /\ hasValue(tmpl.guard.value) => oneGuardAtEntrance

\* C27: after a site whose guard has a value is placed, guardObject has put
\* exactly one guard stack on a tile next to the site's entrance from which
\* it can be visited, owned by the declared race or by the neutral player
\* when that race has no player; a ruin's guard is put into the ruin's own
\* group and no stack is placed on the map for it.
C27_SiteGuardedRuinGarrisoned ==
    pc = "placed" /\ hasValue(tmpl.guard.value) =>
        IF guardedObject.kind = "Site" THEN oneGuardAtEntrance
        ELSE stacksOnMap = {} /\ todo.guards = {} /\ todo.garrison

\* A guarded site was placed for a race without a player: its guard stands
\* on the tile the path to the site starts from and belongs to the neutral
\* player.
C27_NeutralGuardReached ==
    /\ pc = "placed" /\ hasValue(tmpl.guard.value)
    /\ guardedObject.kind = "Site"
    /\ tmpl.guard.owner \notin todo.registered
    /\ \E g \in todo.guards : g.owner = neutralPlayerId /\ isFree(last.after, g.pos)


\* C28 as stated: the loops of createLoot and placeMercenary stop after
\* finitely many draws whatever non-negative values the catalog holds.  A
\* loop goes round on its current value alone, so it stops only if every
\* round that draws leaves less value to spend than the round before.
C28_DrawLoopsTerminate ==
    [][pc' = pc /\ pc \in {"drawItems", "drawUnits"} =>
          /\ todo'.desiredValue = todo.desiredValue
          /\ todo'.currentValue > todo.currentValue
          /\ todo'.currentValue <= todo.desiredValue]_vars

\* ---- C29
\* The kinds of objects the fill decorates.
decoratedKinds == {"Capital", "Village", "Site", "Ruin", "Crystal"}

\* The entries of the decorations list made for the object.
decorationsFor(object) ==
    {i \in 1 .. Len(decorations) :
        decorations[i].kind = object.kind /\ decorations[i].pos = object.pos}

\* C29: when createObstacles starts, before its loop has applied a
\* decoration, the decorations list holds exactly one decoration for each
\* capital, city, site, ruin and crystal that was placed.
C29_OneDecorationPerObject ==
    pc = "decorate" /\ todo.i = 0 =>
        \A object \in objects :
            object.kind \in decoratedKinds => Cardinality(decorationsFor(object)) = 1

\* ---- C30
\* The landmarks the step has put on the map.
landmarksPlaced ==
    {info \in Landmarks : \E object \in objects' \ objects : object.kind = info.id}

\* C30: the landmarks a decoration step places obey the filters of the
\* object it decorates: none of type Misc for a village of tier 3 or more,
\* none wider than the village, none as wide as the capital or wider,
\* whatever was decorated before.
C30_LandmarkFiltersOfDecoratedObject ==
    [][pc' = pc /\ pc = "decorate" =>
          LET dec == decorations[todo.i + 1]
          IN  \A info \in landmarksPlaced :
                 /\ dec.kind = "Village" /\ dec.tier >= 3 => info.type # "Misc"
                 /\ dec.kind = "Village" => info.size[1] <= dec.size[1]
                 /\ dec.kind = "Capital" => info.size[1] < dec.size[1]]_vars

====
